---- MODULE Spec2Model ----
(***************************************************************************)
(* POReceiptShortcut (H5 script): the purchase-order receipt workflow.     *)
(*                                                                         *)
(* One run of POReceiptShortcut.run() is modelled as a state machine.      *)
(* Every remote MI request is a message: it is put "in flight" by the code *)
(* that calls mi.executeRequest and answered later by the remote system;   *)
(* the action that answers it runs the whole continuation of the code up   *)
(* to the next point where the script waits (a response, a dialog or a     *)
(* timer).  Character strings that the code parses or validates are        *)
(* sequences of one-character strings.  Quantities are kept in tenths      *)
(* (num("1.5") is 15) so that fractional quantities stay exact.            *)
(***************************************************************************)
EXTENDS Integers, Sequences, FiniteSets, TLC

(* ---------------------------------------------------------------- bounds *)
\* Largest whole quantity for which the operator fills in and saves the
\* serial form (larger forms can only be cancelled).
MaxQty == 2

\* Largest number of fields of the serial form when the form is examined on
\* its own.
MaxFields == 3

\* const MAX_SERIALS = 25 in promptSerials
MAX_SERIALS == 25

(* ------------------------------------------------------------- strings  *)
Digits == <<"0", "1", "2", "3", "4", "5", "6", "7", "8", "9">>

DigitSet == {Digits[i] : i \in 1..10}

Upper == {"A", "B", "C", "D", "E", "F", "G", "H", "I", "J", "K", "L", "M",
          "N", "O", "P", "Q", "R", "S", "T", "U", "V", "W", "X", "Y", "Z"}

DigitVal(c) == (CHOOSE i \in 1..10 : Digits[i] = c) - 1

\* decimal text of a natural number below 100
NumStr(n) == IF n < 10 THEN <<Digits[n + 1]>>
             ELSE <<Digits[(n \div 10) + 1], Digits[(n % 10) + 1]>>

RECURSIVE Filter(_, _)
Filter(s, keep) ==
    IF s = <<>> THEN <<>>
    ELSE IF Head(s) \in keep THEN <<Head(s)>> \o Filter(Tail(s), keep)
    ELSE Filter(Tail(s), keep)

RECURSIVE DigitPrefix(_)
DigitPrefix(s) ==
    IF s = <<>> \/ Head(s) \notin DigitSet THEN <<>>
    ELSE <<Head(s)>> \o DigitPrefix(Tail(s))

RECURSIVE IntVal(_)
IntVal(ds) ==
    IF ds = <<>> THEN 0
    ELSE IntVal(SubSeq(ds, 1, Len(ds) - 1)) * 10 + DigitVal(ds[Len(ds)])

\* parseFloat on a text made of digits, '.' and '-' only; the result is in
\* tenths (v), and nan when no number starts the text.  Digits after the first
\* decimal are dropped (the model's inputs have at most one).
parseFloat(s) ==
    LET neg  == s # <<>> /\ Head(s) = "-"
        body == IF neg THEN Tail(s) ELSE s
        ip   == DigitPrefix(body)
        rest == SubSeq(body, Len(ip) + 1, Len(body))
        fp   == IF rest # <<>> /\ Head(rest) = "." THEN DigitPrefix(Tail(rest))
                ELSE <<>>
        mag  == IntVal(ip) * 10 + (IF fp = <<>> THEN 0 ELSE DigitVal(fp[1]))
    IN  [nan |-> ip = <<>> /\ fp = <<>>, v |-> IF neg THEN 0 - mag ELSE mag]

\* num(value): parseFloat((value || '0').toString().replace(/[^\d.-]/g,'')) || 0
num(value) ==
    LET txt == IF value = <<>> THEN <<"0">> ELSE value
        pf  == parseFloat(Filter(txt, DigitSet \cup {".", "-"}))
    IN  IF pf.nan THEN 0 ELSE pf.v

RECURSIVE TrimLeft(_)
TrimLeft(s) == IF s # <<>> /\ Head(s) = " " THEN TrimLeft(Tail(s)) ELSE s

RECURSIVE TrimRight(_)
TrimRight(s) ==
    IF s # <<>> /\ s[Len(s)] = " " THEN TrimRight(SubSeq(s, 1, Len(s) - 1))
    ELSE s

\* String.prototype.trim
trim(s) == TrimRight(TrimLeft(s))

\* /^[A-Z0-9\-]+$/.test(val)
SerialPattern(val) ==
    /\ val # <<>>
    /\ \A i \in 1..Len(val) : val[i] \in Upper \cup DigitSet \cup {"-"}

\* number of loop rounds of  for (let i = 0; i < qty; i++)  (qty in tenths)
LoopCount(qty) == IF qty <= 0 THEN 0 ELSE (qty + 9) \div 10

(* ------------------------------------------------------- the environment *)
Mandatory == {"PUNO", "PNLI", "PNLS", "RVQA", "ITNO", "WHLO", "SUNO", "OEND"}

\* values the operator may have typed into the received-quantity field
RVQAValues ==
    {<<>>, <<"1", ".", "5">>, <<"-", "1">>, NumStr(MAX_SERIALS), NumStr(MAX_SERIALS + 1)}
    \cup {NumStr(n) : n \in 0..MaxQty}

\* serial / lot identifiers that pass the format rule
ValidTokens == {<<"S", Digits[i + 1]>> : i \in 1..MaxQty}

TooLong == [i \in 1..21 |-> "A"]

\* what one input field may hold at Save (typed letters are upper-cased by the
\* input handler; a value longer than maxlength can only be set by script)
EntryValues == ValidTokens \cup {<<>>, <<" ">>, <<"#">>, TooLong}

\* the serial form on its own: number of fields and what a field may hold
FormTokens == {<<"S", Digits[i + 1]>> : i \in 1..MaxFields}

FormEntries == FormTokens \cup {<<>>, <<"#">>}

\* PO line records PPS200MI/GetLine may return
POLines == {[RORC |-> "3", RORN |-> "CO1", GETY |-> "24"],
            [RORC |-> "3", RORN |-> "",    GETY |-> "20"],
            [RORC |-> "0", RORN |-> "CO1", GETY |-> "20"]}

\* item records MMS200MI/GetItmBasic may return
Items == {[INDI |-> "0", TPCD |-> "13", EXPD |-> "0"],
          [INDI |-> "0", TPCD |-> "01", EXPD |-> "0"],
          [INDI |-> "1", TPCD |-> "01", EXPD |-> "0"],
          [INDI |-> "1", TPCD |-> "13", EXPD |-> "0"],
          [INDI |-> "4", TPCD |-> "01", EXPD |-> "0"],
          [INDI |-> "2", TPCD |-> "01", EXPD |-> "0"],
          [INDI |-> "3", TPCD |-> "01", EXPD |-> "0"],
          [INDI |-> "3", TPCD |-> "01", EXPD |-> "1"]}

\* what the operator may leave in the expiration date field
DateValues == {<<>>, <<"2", "0", "2", "5", "-", "0", "1", "-", "3", "1">>}

\* answers to a serial/lot existence check: a record of this item and
\* identifier, another record, no record, rejection with statusCode 400,
\* any other rejection
CheckOutcomes == {"match", "other", "empty", "notfound", "error"}

\* answers to AddWhsHead: a record with MSGN, a record without, none, rejection
HeadOutcomes == {"item", "nomsgn", "empty", "error"}

\* answers to AddWhsLine and MMS240MI/Del (the code only tells resolved from rejected)
PlainOutcomes == {"item", "error"}

\* remaining quantities PPS001MI/GetBasicData2 may return
RSTQValues == {<<"1">>, <<"3", "0">>}

\* terminal statuses MHS850MI/GetWhsHead may return ("" is a record without STAT)
StatusValues == {"", "10", "15", "20", "25", "30", "35", "40", "45", "90", "92", "99", "77"}

\* outcome of a request: a record, a response without record, a rejection
Outcomes == {"item", "empty", "error"}

(* ------------------------------------------------------------- requests *)
GetLine      == "PPS200MI/GetLine"
GetHead      == "PPS200MI/GetHead"
WhsGet       == "MMS009MI/Get"
GetItmBasic  == "MMS200MI/GetItmBasic"
GetBasicData2 == "PPS001MI/GetBasicData2"
GetOrderHead == "OIS100MI/GetOrderHead"
GetItmLot    == "MMS235MI/GetItmLot"
EquipAdd     == "MMS240MI/Add"
EquipDel     == "MMS240MI/Del"
AddWhsHead   == "MHS850MI/AddWhsHead"
AddWhsPack   == "MHS850MI/AddWhsPack"
AddWhsLine   == "MHS850MI/AddWhsLine"
PrcWhsTran   == "MHS850MI/PrcWhsTran"
GetWhsHead   == "MHS850MI/GetWhsHead"

\* an MIRequest: program/transaction, the identifier it is about (BANO/SERN)
\* and, for a receipt line, the quantity text; WHSL is "absent" where the
\* record has no such property
WhsReq(api, key, qty, msgn, pacn) ==
    [api |-> api, key |-> key, qty |-> qty, MSGN |-> msgn, PACN |-> pacn,
     WHSL |-> "absent"]

\* a request whose record has no message number and no pack number
Req(api, key, qty) == WhsReq(api, key, qty, "", <<>>)

Call(api) == Req(api, <<>>, <<>>)


Range(s) == {s[i] : i \in 1..Len(s)}

(* ---------------------------------------------------------------- state *)
VARIABLES
    pc,                \* where run() is waiting
    steps,             \* labels passed to advance(), in order (progress bar)
    screen,            \* field values read from the H5 screen
    poLine,            \* RORC, RORN, GETY of the PO line
    isWmsWhs,          \* this.isWmsWhs
    item,              \* INDI, TPCD, EXPD of the item
    RMQA,              \* remaining quantity text
    CUNO,              \* drop-ship customer
    warning,           \* text of the open warning dialog
    promptFields,      \* number of serial input fields in the open form, -1: none
    validationError,   \* message shown by showValidationError in the open form
    serials,           \* the list promptSerials resolved with
    lot,               \* what promptLot resolved with
    lines,             \* the lines given to process()
    inflight,          \* requests sent and not yet answered
    issued,            \* every request sent, in order
    replies,           \* <<request, how its promise settled>> for every answer
    createdEquipment,  \* this.createdEquipment
    remoteEquip,       \* equipment records existing in the remote system
    added,             \* serials whose MMS240MI/Add succeeded in this run
    rb,                \* the running rollbackEquipment() call
    summary,           \* the summary rollbackEquipment logged last
    MSGN,              \* this.MSGN
    STAT,              \* status read by the final check
    lastCheck,         \* identifier and answer of the latest existence check
    fields,            \* contents of the serial input fields at the latest Save
    closedBy,          \* how the operator closed a prompt without accepting ("" not)
    named,             \* the field names listed in the validation error
    alertClosed,       \* how the alert was dismissed: "" (not), "OK", "close"
    refreshed,         \* refresh() has been called
    processed,         \* the remote system has processed the transaction (status '90')
    diagnostic,        \* the troubleshooting part of the failed-transaction message
    dialog,            \* the alert shown at the end: "none", "Success", "Error"
    busyIndicator,     \* the controller's busy indicator is shown
    cache,             \* BEN_H5_AutoComplete: this.cache, search term -> items
    cacheSelectedItems, \* this.cacheSelectedItems, selected value -> search term
    currentSearchTerm, \* this.currentSearchTerm
    searches,          \* the calls of the source callback, in order
    menu,              \* the items the open menu of the widget shows (<<>> closed)
    widgets,           \* the autocomplete widgets created so far
    subscribed,        \* the handlers of addEvents that are subscribed
    timer,             \* the setTimeout of the Requested handler is pending
    command,           \* the latest command: sent and not yet answered, "cancelled", "" none
    error              \* the error thrown in the run ("" none)

vars == <<pc, steps, screen, poLine, isWmsWhs, item, RMQA, CUNO, warning, promptFields,
          validationError, serials, lot, lines, inflight, issued, replies,
          createdEquipment, remoteEquip, added, rb, summary, MSGN, STAT,
          lastCheck, fields,
          closedBy, named, alertClosed, refreshed, processed, diagnostic, dialog,
          busyIndicator, error,
          cache, cacheSelectedItems, currentSearchTerm, searches, menu, widgets,
          subscribed, timer, command>>

aux   == <<fields, lastCheck>>
auto  == <<cache, cacheSelectedItems, currentSearchTerm, searches, menu, widgets,
          subscribed, timer, command>>
ui    == <<alertClosed, refreshed, auto>>
ctx   == <<screen, poLine, isWmsWhs, item, RMQA, CUNO>>
form  == <<warning, promptFields, validationError, serials, lot>>
equip == <<createdEquipment, remoteEquip, added, rb, summary>>
whs   == <<lines, MSGN, STAT, diagnostic, processed>>
net   == <<inflight, issued>>

NoCheck == [key |-> <<>>, out |-> ""]

NoRollback == [active |-> FALSE, from |-> "", pending |-> {}, results |-> <<>>,
               deleted |-> 0, notDeleted |-> 0]

NoSummary == [successful |-> -1, failed |-> -1, deleted |-> -1, notDeleted |-> -1]

(* ------------------------------------------ BEN_H5_AutoComplete: text *)
\* text is a sequence of characters
upperCase(c) ==
    CASE c = "a" -> "A"
      [] c = "b" -> "B"
      [] c = "c" -> "C"
      [] OTHER -> c

\* String.prototype.toUpperCase
toUpperCase(s) == [i \in 1..Len(s) |-> upperCase(s[i])]

\* the UTF-16 code unit of a character
CodeUnit(c) ==
    CASE c = " " -> 32
      [] c = "*" -> 42
      [] c = "-" -> 45
      [] c = "A" -> 65
      [] c = "B" -> 66
      [] c = "C" -> 67
      [] c = "a" -> 97
      [] c = "b" -> 98
      [] c = "c" -> 99

\* a < b for strings: the first differing code unit decides, a proper prefix
\* comes first
RECURSIVE LessThan(_, _)
LessThan(a, b) ==
    IF b = <<>> THEN FALSE
    ELSE IF a = <<>> THEN TRUE
    ELSE IF Head(a) = Head(b) THEN LessThan(Tail(a), Tail(b))
    ELSE CodeUnit(Head(a)) < CodeUnit(Head(b))

\* String.prototype.includes
includes(s, part) ==
    \E i \in 0..(Len(s) - Len(part)) : SubSeq(s, i + 1, i + Len(part)) = part

\* searchTerm.replace(/\*/g, "")
RECURSIVE withoutStars(_)
withoutStars(s) ==
    IF s = <<>> THEN <<>>
    ELSE IF Head(s) = "*" THEN withoutStars(Tail(s))
    ELSE <<Head(s)>> \o withoutStars(Tail(s))

\* .split(" ").filter(Boolean): the non-empty words of s; word is the word
\* being read
RECURSIVE words(_, _)
words(s, word) ==
    LET done == IF word = <<>> THEN <<>> ELSE <<word>>
    IN  IF s = <<>> THEN done
        ELSE IF Head(s) = " " THEN done \o words(Tail(s), <<>>)
        ELSE words(Tail(s), Append(word, Head(s)))

\* values.join(" --- ")
RECURSIVE join(_)
join(values) ==
    IF values = <<>> THEN <<>>
    ELSE IF Len(values) = 1 THEN values[1]
    ELSE values[1] \o <<" ", "-", "-", "-", " ">> \o join(Tail(values))

\* a list that may be undefined: the items of a response, and what the source
\* callback hands to the response callback of the widget
Undefined == [defined |-> FALSE, list |-> <<>>]

Content(list) == [defined |-> TRUE, list |-> list]

\* parseResponse(response): [] for items of length 0, otherwise the items as
\* they are, undefined included
parseResponse(items) ==
    IF items.defined /\ Len(items.list) = 0 THEN Content(<<>>) ELSE items

\* transformResponse(response): value is the first output field of the
\* record, label all its fields joined
transformResponse(response) ==
    [i \in 1..Len(response) |-> [label |-> join(response[i]), value |-> response[i][1]]]

\* (variant: only the value is compared)
filterSearchByValue(searchTerm, result) ==
    LET terms == words(withoutStars(searchTerm), <<>>)
    IN  SelectSeq(result,
            LAMBDA it : \A k \in 1..Len(terms) :
                includes(toUpperCase(it.value), toUpperCase(terms[k])))

\* filterSearch(searchTerm, result): the items whose value or label contains
\* every word of the term, letter case aside
filterSearch(searchTerm, result) ==
    LET terms == words(withoutStars(searchTerm), <<>>)
    IN  SelectSeq(result,
            LAMBDA it : \A k \in 1..Len(terms) :
                \/ includes(toUpperCase(it.value), toUpperCase(terms[k]))
                \/ includes(toUpperCase(it.label), toUpperCase(terms[k])))

\* sortItems(a, b) > 0
sortItems(a, b) == LessThan(b.value, a.value)

\* result.sort(this.sortItems): ascending by value, equal values keep their order
RECURSIVE sort(_)
sort(result) ==
    IF result = <<>> THEN <<>>
    ELSE LET rest == sort(SubSeq(result, 1, Len(result) - 1))
             last == result[Len(result)]
             keep == {i \in 1..Len(rest) : ~sortItems(rest[i], last)}
             n    == IF keep = {} THEN 0
                     ELSE CHOOSE i \in keep : \A j \in keep : j <= i
         IN  SubSeq(rest, 1, n) \o <<last>> \o SubSeq(rest, n + 1, Len(rest))

\* this.cache[key]
cacheAt(key) == IF key \in DOMAIN cache THEN Content(cache[key]) ELSE Undefined

\* constructor, Init() and run() with valid arguments and the field present:
\* both caches empty, one widget set up, both handlers of addEvents subscribed
InitAutoComplete ==
    /\ cache = <<>>
    /\ cacheSelectedItems = <<>>
    /\ currentSearchTerm = <<>>
    /\ searches = <<>>
    /\ menu = <<>>
    /\ widgets = <<[destroyed |-> FALSE, requested |-> FALSE]>>
    /\ subscribed = [Requesting |-> TRUE, Requested |-> TRUE]
    /\ timer = FALSE
    /\ command = ""

\* (variant: the indicator is shown whatever v is)
busyShown(v) == TRUE

\* busy(v): ShowBusyIndicator() when v, HideBusyIndicator() otherwise
busy(v) == v

\* constructor and Init(): busy(true), then run() up to its first wait;
\* nothing looked up yet; the screen holds what the operator entered (a field is empty when its name is in screen.empty)
Init ==
    /\ pc = "start"
    /\ steps = <<>>
    /\ screen \in [RVQA : RVQAValues, WHSL : BOOLEAN,
                   empty : SUBSET (Mandatory \ {"RVQA"})]
    /\ poLine = [RORC |-> "", RORN |-> "", GETY |-> ""]
    /\ isWmsWhs = FALSE
    /\ item = [INDI |-> "", TPCD |-> "", EXPD |-> ""]
    /\ RMQA = <<>>
    /\ CUNO = ""
    /\ warning = <<>>
    /\ promptFields = -1
    /\ validationError = <<>>
    /\ serials = <<>>
    /\ lot = [lot |-> <<>>, expi |-> <<>>]
    /\ lines = <<>>
    /\ inflight = {}
    /\ issued = <<>>
    /\ replies = {}
    /\ createdEquipment = <<>>
    /\ remoteEquip = {}
    /\ added = {}
    /\ rb = NoRollback
    /\ summary = NoSummary
    /\ MSGN = ""
    /\ STAT = "none"
    /\ lastCheck = NoCheck
    /\ fields = <<>>
    /\ diagnostic = ""
    /\ processed = FALSE
    /\ alertClosed = ""
    /\ refreshed = FALSE
    /\ named = <<>>
    /\ closedBy = ""
    /\ dialog = "none"
    /\ busyIndicator = busy(TRUE)
    /\ error = ""
    /\ InitAutoComplete

(* -------------------------------------------------------------- helpers *)
\* mi.executeRequest for the requests of the sequence rs, in order; infl are
\* the requests still unanswered
Send(rs, infl) ==
    /\ issued' = issued \o rs
    /\ inflight' = infl \cup Range(rs)

\* the answer to request r arrives; settled tells how the promise the code
\* built on it settles
Receive(r, settled) ==
    /\ r \in inflight
    /\ replies' = replies \cup {<<r, settled>>}

\* requests of one transaction that are still unanswered
Pending(api, infl) == {r \in infl : r.api = api}

\* advance(label): the step is shown as done
advance(label) == steps' = Append(steps, label)

\* catch (e) of run(): closeProgress(); showErrorDialog(...); the promise of
\* run() settles and the callback of Init's finally() runs before any other event
RunCatch(e) ==
    /\ pc' = "done"
    /\ dialog' = "Error"
    /\ busyIndicator' = busy(FALSE)
    /\ error' = e

\* the ways a prompt is closed without accepting it
CloseWays == {"Cancel", "Escape", "X"}

\* the Cancel button sets closedByButton before the dialog closes
ClosedByButton(how) == how = "Cancel"

\* (variant: the close handler never rejects)
CloseIgnored(byButton) == FALSE

\* close: if (!closedByButton) reject(...)
CloseRejects(byButton) == ~byButton

\* a prompt closed without accepting: the Cancel click rejects with e, and so
\* does the close handler after Escape or X; run() catches the rejection. A
\* prompt closed without rejection would leave run() waiting for ever.
Cancel(e) ==
    \E how \in CloseWays :
        /\ closedBy' = how
        /\ IF ClosedByButton(how) \/ CloseRejects(ClosedByButton(how))
           THEN RunCatch(e)
           ELSE pc' = "abandoned" /\ UNCHANGED <<dialog, busyIndicator, error>>

(* ------------------------------------------------- validate and look up *)
\* the mandatory fields in the order validateFields tests them
FieldOrder == <<"PUNO", "PNLI", "PNLS", "RVQA", "ITNO", "WHLO", "SUNO", "OEND">>

\* !this.X : the field read from the screen is empty
IsMissing(name) == IF name = "RVQA" THEN screen.RVQA = <<>> ELSE name \in screen.empty

\* (variant: only the first missing field is kept)
missingFieldsFirstOnly ==
    LET all == SelectSeq(FieldOrder, IsMissing)
    IN  IF all = <<>> THEN <<>> ELSE <<Head(all)>>

\* const missingFields = [...].filter(Boolean)
missingFields == SelectSeq(FieldOrder, IsMissing)

\* run(): initProgress, validateFields, advance('Validate')
validateFields ==
    /\ pc = "start"
    /\ IF missingFields # <<>>
       THEN RunCatch("Missing required fields") /\ named' = missingFields /\ UNCHANGED steps
       ELSE /\ pc' = "adv_Validate"
            /\ advance("Validate")
            /\ UNCHANGED <<named, dialog, busyIndicator, error>>
    /\ UNCHANGED <<ui, closedBy, fields, lastCheck, ctx, form, equip, whs, net, replies>>

\* getPOLine(): the request
getPOLine ==
    /\ pc = "adv_Validate"
    /\ Send(<<Call(GetLine)>>, inflight)
    /\ pc' = "getPOLine"
    /\ UNCHANGED <<ui, named, closedBy, aux, steps, ctx, form, equip, whs, replies, dialog, busyIndicator, error>>

\* how the promise of a request settles
Settled(out) ==
    CASE out = "error" -> "rejected"
      [] out = "item" -> "fulfilled"
      [] OTHER -> "norecord"

\* (variant: a response without record is accepted)
LookupRejected(out) == out = "error"

\* a lookup fails when its promise rejects or: if (!response || !response.item)
LookupFailed(out) == out # "item"

\* getPOLine(): the response
getPOLineResponse ==
    /\ pc = "getPOLine"
    /\ \E out \in Outcomes, rec \in POLines :
        /\ Receive(Call(GetLine), Settled(out))
        /\ inflight' = inflight \ {Call(GetLine)}
        /\ IF ~LookupFailed(out)
           THEN /\ poLine' = rec
                /\ pc' = "adv_GetPOLine"
                /\ advance("Get PO line")
                /\ UNCHANGED <<dialog, busyIndicator, error>>
           ELSE /\ RunCatch("PO line retrieval failed")
                /\ UNCHANGED <<poLine, steps>>
    /\ UNCHANGED <<ui, named, closedBy, aux, screen, isWmsWhs, item, RMQA, CUNO, form, equip, whs, issued>>

\* lookups(): the PO header request
lookups ==
    /\ pc = "adv_GetPOLine"
    /\ Send(<<Call(GetHead)>>, inflight)
    /\ pc' = "lookupsHeader"
    /\ UNCHANGED <<ui, named, closedBy, aux, steps, ctx, form, equip, whs, replies, dialog, busyIndicator, error>>

\* lookups(): PO header response, then the warehouse request
lookupsHeader ==
    /\ pc = "lookupsHeader"
    /\ \E out \in Outcomes :
        /\ Receive(Call(GetHead), Settled(out))
        /\ IF ~LookupFailed(out)
           THEN /\ Send(<<Call(WhsGet)>>, inflight \ {Call(GetHead)})
                /\ pc' = "lookupsWhs"
                /\ UNCHANGED <<dialog, busyIndicator, error>>
           ELSE /\ RunCatch("PO header retrieval failed")
                /\ inflight' = inflight \ {Call(GetHead)}
                /\ UNCHANGED issued
    /\ UNCHANGED <<ui, named, closedBy, aux, steps, ctx, form, equip, whs>>

\* answers to MMS009MI/Get: a record, a response without record, a rejection
\* with statusCode 400 (record not found), any other rejection
WhsOutcomes == Outcomes \cup {"notfound"}

\* how the promise of the warehouse request settles
WhsSettled(out) == IF out = "notfound" THEN "notfound" ELSE Settled(out)

\* await this.mi.executeRequest(whsRequest) throws on every rejection
WhsRejected(out) == out \in {"error", "notfound"}

\* lookups(): warehouse response (a record means WMS-managed), then the item request
lookupsWhs ==
    /\ pc = "lookupsWhs"
    /\ \E out \in WhsOutcomes :
        /\ Receive(Call(WhsGet), WhsSettled(out))
        /\ IF ~WhsRejected(out)
           THEN /\ isWmsWhs' = (out = "item")
                /\ Send(<<Call(GetItmBasic)>>, inflight \ {Call(WhsGet)})
                /\ pc' = "lookupsItem"
                /\ UNCHANGED <<dialog, busyIndicator, error>>
           ELSE /\ RunCatch("Data lookup failed")
                /\ inflight' = inflight \ {Call(WhsGet)}
                /\ UNCHANGED <<issued, isWmsWhs>>
    /\ UNCHANGED <<ui, named, closedBy, aux, steps, screen, poLine, item, RMQA, CUNO, form, equip, whs>>

\* const isNonMaterial = this.INDI === '0' && this.TPCD === '13'
isNonMaterial(it) == it.INDI = "0" /\ it.TPCD = "13"

\* lookups(): item response, location check, then the remaining-quantity request
lookupsItem ==
    /\ pc = "lookupsItem"
    /\ \E out \in Outcomes, rec \in Items :
        /\ Receive(Call(GetItmBasic), Settled(out))
        /\ IF LookupFailed(out)
           THEN /\ RunCatch("Item details retrieval failed")
                /\ inflight' = inflight \ {Call(GetItmBasic)}
                /\ UNCHANGED <<issued, item>>
           ELSE /\ item' = rec
                /\ IF ~isNonMaterial(rec) /\ ~screen.WHSL
                   THEN /\ RunCatch("Warehouse location (WHSL) is required")
                        /\ inflight' = inflight \ {Call(GetItmBasic)}
                        /\ UNCHANGED issued
                   ELSE /\ Send(<<Call(GetBasicData2)>>, inflight \ {Call(GetItmBasic)})
                        /\ pc' = "lookupsRem"
                        /\ UNCHANGED <<dialog, busyIndicator, error>>
    /\ UNCHANGED <<ui, named, closedBy, aux, steps, screen, poLine, isWmsWhs, RMQA, CUNO, form, equip, whs>>

\* (variant: the relation code alone decides)
isDropShipByCode(line) == line.RORC = "3"

\* if (this.RORC === '3' && this.RORN)
isDropShip(line) == line.RORC = "3" /\ line.RORN # ""

\* lookups(): remaining-quantity response, then the optional customer request
lookupsRem ==
    /\ pc = "lookupsRem"
    /\ \E out \in Outcomes, rstq \in RSTQValues :
        /\ Receive(Call(GetBasicData2), Settled(out))
        /\ IF LookupFailed(out)
           THEN /\ RunCatch("Remaining quantity retrieval failed")
                /\ inflight' = inflight \ {Call(GetBasicData2)}
                /\ UNCHANGED <<issued, RMQA, steps>>
           ELSE /\ RMQA' = rstq
                /\ UNCHANGED <<dialog, busyIndicator, error>>
                /\ IF isDropShip(poLine)
                   THEN /\ Send(<<Call(GetOrderHead)>>, inflight \ {Call(GetBasicData2)})
                        /\ pc' = "lookupsCust"
                        /\ UNCHANGED steps
                   ELSE /\ inflight' = inflight \ {Call(GetBasicData2)}
                        /\ pc' = "adv_Lookups"
                        /\ advance("Lookups")
                        /\ UNCHANGED issued
    /\ UNCHANGED <<ui, named, closedBy, aux, screen, poLine, isWmsWhs, item, CUNO, form, equip, whs>>

\* lookups(): drop-ship customer response
lookupsCust ==
    /\ pc = "lookupsCust"
    /\ \E out \in Outcomes :
        /\ Receive(Call(GetOrderHead), Settled(out))
        /\ inflight' = inflight \ {Call(GetOrderHead)}
        /\ IF LookupFailed(out)
           THEN /\ RunCatch("Customer order details retrieval failed")
                /\ UNCHANGED <<CUNO, steps>>
           ELSE /\ CUNO' = "C1"
                /\ pc' = "adv_Lookups"
                /\ advance("Lookups")
                /\ UNCHANGED <<dialog, busyIndicator, error>>
    /\ UNCHANGED <<ui, named, closedBy, aux, screen, poLine, isWmsWhs, item, RMQA, form, equip, whs, issued>>

(* -------------------------------------------------------------- warnings *)
\* if (this.isWmsWhs && this.GETY !== '24')
wmsWarning == isWmsWhs /\ poLine.GETY # "24"

\* if (this.num(this.RVQA) > this.num(this.RMQA))
overReceipt == num(screen.RVQA) > num(RMQA)

\* (variant: the message shows the requested quantity)
overReceiptRequested == <<"Over-receipt of", num(screen.RVQA)>>

\* const diff = this.num(this.RVQA) - this.num(this.RMQA)
overReceiptText == <<"Over-receipt of", num(screen.RVQA) - num(RMQA)>>

\* warnings(): up to the first dialog, or through when nothing is to be warned of
warnings ==
    /\ pc = "adv_Lookups"
    /\ IF wmsWarning
       THEN pc' = "warnWms" /\ warning' = <<"WMS-managed Receipt">> /\ UNCHANGED steps
       ELSE IF overReceipt
       THEN pc' = "warnOver" /\ warning' = overReceiptText /\ UNCHANGED steps
       ELSE pc' = "adv_Warnings" /\ advance("Warnings") /\ UNCHANGED warning
    /\ UNCHANGED <<ui, named, closedBy, aux, ctx, promptFields, validationError, serials, lot, equip, whs,
                   net, replies, dialog, busyIndicator, error>>

\* dialogWarn(): Proceed (button or Enter)
dialogWarnProceed ==
    /\ pc \in {"warnWms", "warnOver"}
    /\ IF pc = "warnWms" /\ overReceipt
       THEN pc' = "warnOver" /\ warning' = overReceiptText /\ UNCHANGED steps
       ELSE pc' = "adv_Warnings" /\ advance("Warnings") /\ warning' = <<>>
    /\ UNCHANGED <<ui, named, closedBy, aux, ctx, promptFields, validationError, serials, lot, equip, whs,
                   net, replies, dialog, busyIndicator, error>>

\* dialogWarn(): Cancel, Escape or X
dialogWarnCancel ==
    /\ pc \in {"warnWms", "warnOver"}
    /\ Cancel("Operation cancelled by user")
    /\ warning' = <<>>
    /\ UNCHANGED <<ui, named, fields, lastCheck, steps, ctx, promptFields, validationError, serials, lot, equip,
                   whs, net, replies>>

(* ------------------------------------------------ compensation (start) *)
\* (variant: the first tracked record is skipped)
DelRequestsButFirst(tracked) ==
    [i \in 1..(Len(tracked) - 1) |-> Req(EquipDel, tracked[i + 1], <<>>)]

\* this.createdEquipment.map(...): one MMS240MI/Del request per tracked record
DelRequests(tracked) ==
    [i \in 1..Len(tracked) |-> Req(EquipDel, tracked[i], <<>>)]

\* (variant: the caller does not wait for rollbackEquipment())
rollbackEquipmentNotAwaited(from, e, infl) ==
    /\ RunCatch(e)
    /\ Send(DelRequests(createdEquipment), infl)
    /\ rb' = IF createdEquipment = <<>> THEN rb
             ELSE [active |-> TRUE, from |-> from,
                   pending |-> Range(createdEquipment), results |-> <<>>,
                   deleted |-> 0, notDeleted |-> 0]

\* rollbackEquipment(), called with error e being handled: one Del per tracked
\* record, all sent at once; with nothing tracked it returns and e goes on to
\* the catch of run()
rollbackEquipment(from, e, infl) ==
    IF createdEquipment = <<>>
    THEN /\ RunCatch(e)
         /\ inflight' = infl
         /\ UNCHANGED <<issued, rb>>
    ELSE /\ pc' = "rollback"
         /\ error' = e
         /\ UNCHANGED <<dialog, busyIndicator>>
         /\ Send(DelRequests(createdEquipment), infl)
         /\ rb' = [active |-> TRUE, from |-> from,
                   pending |-> Range(createdEquipment), results |-> <<>>,
                   deleted |-> 0, notDeleted |-> 0]

(* ------------------------------------------------------ the three branches *)
\* (variant: the limit is taken one too high)
MaxSerialsExceededLate(qty) == qty > (MAX_SERIALS + 1) * 10

\* if (qty > MAX_SERIALS)   (qty in tenths)
MaxSerialsExceeded(qty) == qty > MAX_SERIALS * 10

\* (variant: manual control '1' is handled like lot control)
branchOfManualAsLot(indi) ==
    IF indi = "2" THEN "Serial" ELSE IF indi \in {"1", "3"} THEN "Lot" ELSE "Confirm"

\* if (this.INDI === '2') ... else if (this.INDI === '3') ... else ...
branchOf(indi) ==
    IF indi = "2" THEN "Serial" ELSE IF indi = "3" THEN "Lot" ELSE "Confirm"

\* run(): branch by control method; promptSerials / promptLot / promptConfirm
\* up to the open dialog
branchByControlMethod ==
    /\ pc = "adv_Warnings"
    /\ IF branchOf(item.INDI) = "Serial"
       THEN IF MaxSerialsExceeded(num(screen.RVQA))
            THEN RunCatch("Cannot process serials. Maximum allowed") /\ UNCHANGED promptFields
            ELSE /\ pc' = "promptSerials"
                 /\ promptFields' = LoopCount(num(screen.RVQA))
                 /\ UNCHANGED <<dialog, busyIndicator, error>>
       ELSE /\ pc' = IF branchOf(item.INDI) = "Lot" THEN "promptLot" ELSE "promptConfirm"
            /\ UNCHANGED <<promptFields, dialog, busyIndicator, error>>
    /\ UNCHANGED <<ui, named, closedBy, aux, steps, ctx, warning, validationError, serials, lot, equip, whs,
                   net, replies>>

\* the three format tests of the Save handler, in its order
SerialProblem(val) ==
    IF val = <<>> THEN "blank"
    ELSE IF Len(val) > 20 THEN "too long"
    ELSE IF ~SerialPattern(val) THEN "invalid characters"
    ELSE ""

\* (variant: the loop stops at the first entry that fails a test)
InvalidEntriesFirstOnly(entries) ==
    LET bad == {i \in 1..Len(entries) : SerialProblem(trim(entries[i])) # ""}
    IN  IF bad = {} THEN <<>>
        ELSE LET i == CHOOSE k \in bad : \A m \in bad : k <= m
             IN  <<<<i, SerialProblem(trim(entries[i]))>>>>

\* invalid[]: position and problem of every entry that fails a test
InvalidEntries(entries) ==
    LET bad == {i \in 1..Len(entries) : SerialProblem(trim(entries[i])) # ""}
        RECURSIVE Collect(_)
        Collect(i) == IF i > Len(entries) THEN <<>>
                      ELSE IF i \in bad
                      THEN <<<<i, SerialProblem(trim(entries[i]))>>>> \o Collect(i + 1)
                      ELSE Collect(i + 1)
    IN  Collect(1)

\* serials[]: the trimmed entries that pass
ValidSerials(entries) ==
    LET RECURSIVE Collect(_)
        Collect(i) == IF i > Len(entries) THEN <<>>
                      ELSE IF SerialProblem(trim(entries[i])) = ""
                      THEN <<trim(entries[i])>> \o Collect(i + 1)
                      ELSE Collect(i + 1)
    IN  Collect(1)

\* duplicates[]: every value met a second time, once
Duplicates(sers) ==
    LET RECURSIVE Scan(_, _, _)
        Scan(i, seen, dups) ==
            IF i > Len(sers) THEN dups
            ELSE IF sers[i] \in seen
            THEN Scan(i + 1, seen,
                      IF sers[i] \in Range(dups) THEN dups ELSE Append(dups, sers[i]))
            ELSE Scan(i + 1, seen \cup {sers[i]}, dups)
    IN  Scan(1, {}, <<>>)

\* (variant: only neighbouring serials are compared)
AdjacentEqual(sers, qty) ==
    \E i \in 1..(Len(sers) - 1) : sers[i] = sers[i + 1]

\* if (new Set(serials).size !== qty)   (qty in tenths)
SizeDiffers(sers, qty) == Cardinality(Range(sers)) * 10 # qty

\* (variant: addEquip is not awaited - the receipt starts with the Adds)
addEquipNotAwaited(arr, infl) ==
    /\ createdEquipment' = <<>>
    /\ Send([i \in 1..Len(arr) |-> Req(EquipAdd, arr[i], <<>>)]
            \o <<Call(AddWhsHead)>>, infl)
    /\ pc' = "AddWhsHead"
    /\ UNCHANGED steps

\* addEquip(arr): reset the tracking list and send one Add per serial
addEquip(arr, infl) ==
    /\ createdEquipment' = <<>>
    /\ IF arr = <<>>
       THEN /\ pc' = "adv_Equip"
            /\ advance("Adding equipment records")
            /\ inflight' = infl
            /\ UNCHANGED issued
       ELSE /\ Send([i \in 1..Len(arr) |-> Req(EquipAdd, arr[i], <<>>)], infl)
            /\ pc' = "addEquip"
            /\ UNCHANGED steps

\* checkSer(arr): one existence check per serial, all sent at once
checkSer(arr) ==
    IF arr = <<>>
    THEN addEquip(arr, inflight)
    ELSE /\ Send([i \in 1..Len(arr) |-> Req(GetItmLot, arr[i], <<>>)], inflight)
         /\ pc' = "checkSer"
         /\ UNCHANGED <<steps, createdEquipment>>

\* promptSerials(): Save (button, or Enter in the last field)
SaveSerials(limit, forms) ==
    /\ pc = "promptSerials"
    /\ promptFields <= limit
    /\ \E entries \in forms :
        LET invalid == InvalidEntries(entries)
            sers    == ValidSerials(entries)
        IN  /\ fields' = entries
            /\ IF invalid # <<>>
               THEN /\ validationError' = <<"Invalid or blank input in", invalid>>
                    /\ UNCHANGED <<pc, steps, serials, createdEquipment, net>>
               ELSE IF SizeDiffers(sers, num(screen.RVQA))
               THEN /\ validationError' = <<"Duplicates detected", Duplicates(sers)>>
                    /\ UNCHANGED <<pc, steps, serials, createdEquipment, net>>
               ELSE /\ serials' = sers
                    /\ checkSer(sers)
                    /\ validationError' = <<>>
    /\ UNCHANGED <<ui, named, closedBy, lastCheck, ctx, warning, promptFields, lot, remoteEquip, added, rb, summary,
                   whs, replies, dialog, busyIndicator, error>>

\* the forms the operator may have filled in when Save is pressed in a run:
\* field i holds the serial of unit i, the serial of the first unit once
\* more, or something that is not a serial
RunForms ==
    {e \in [1..promptFields -> EntryValues] :
        \A i \in 1..promptFields :
            e[i] \in ValidTokens => e[i] \in {<<"S", Digits[2]>>, <<"S", Digits[i + 1]>>}}

promptSerialsSave == SaveSerials(MaxQty, RunForms)

\* the same Save in a form of up to MaxFields fields
promptSerialsSaveWide == SaveSerials(MaxFields, [1..promptFields -> FormEntries])

\* promptSerials(): Cancel, Escape or X
promptSerialsCancel ==
    /\ pc = "promptSerials"
    /\ Cancel("Serial input cancelled by user")
    /\ validationError' = <<>>
    /\ fields' = <<>>
    /\ UNCHANGED <<ui, named, lastCheck, steps, ctx, warning, promptFields, serials, lot, equip, whs, net,
                   replies>>

\* (variant: the not-found rejection is not recognised)
CheckPassesNoRecordOnly(out) == out \in {"other", "empty"}

\* no record of this item and identifier came back, or the request was
\* rejected with statusCode 400
CheckPasses(out) == out \in {"other", "empty", "notfound"}

\* what a failed check throws: its own 'already exists' error for a matching
\* record, the rejection of the request otherwise
CheckError(what, out) ==
    CASE out = "match" /\ what = "Serial" -> "Serial already exists"
      [] out = "match" /\ what = "Lot" -> "Lot already exists"
      [] OTHER -> "Remote error"

\* how the promise of one check settles
CheckSettled(out) == IF CheckPasses(out) THEN "fulfilled" ELSE "rejected"

\* (variant: Promise.race - the first check that passes ends the wait)
FirstSerialChecked(infl) == TRUE

\* await Promise.all(arr.map(...)) resolves: no check is unanswered
AllSerialsChecked(infl) == Pending(GetItmLot, infl) = {}

\* checkSer(): one response; Promise.all rejects on the first failure and
\* resolves with the last success, and then addEquip starts
checkSerResponse ==
    /\ pc # "checkLot"
    /\ \E r \in Pending(GetItmLot, inflight), out \in CheckOutcomes :
        /\ Receive(r, CheckSettled(out))
        /\ lastCheck' = [key |-> r.key, out |-> out]
        /\ IF pc # "checkSer"
           THEN /\ inflight' = inflight \ {r}
                /\ UNCHANGED <<pc, steps, issued, createdEquipment, dialog, busyIndicator, error>>
           ELSE IF ~CheckPasses(out)
           THEN /\ RunCatch(CheckError("Serial", out))
                /\ inflight' = inflight \ {r}
                /\ UNCHANGED <<steps, issued, createdEquipment>>
           ELSE IF AllSerialsChecked(inflight \ {r})
           THEN /\ addEquip(serials, inflight \ {r})
                /\ UNCHANGED <<dialog, busyIndicator, error>>
           ELSE /\ inflight' = inflight \ {r}
                /\ UNCHANGED <<pc, steps, issued, createdEquipment, dialog, busyIndicator, error>>
    /\ UNCHANGED <<ui, named, closedBy, fields, ctx, form, remoteEquip, added, rb, summary, whs>>

\* addEquip(): one response.  A created record is pushed on the tracking list
\* whenever its response arrives; the first failure starts the rollback
addEquipResponse ==
    \E r \in Pending(EquipAdd, inflight), out \in Outcomes :
        /\ Receive(r, IF out = "item" THEN "fulfilled" ELSE "rejected")
        /\ IF out = "item"
           THEN /\ createdEquipment' = Append(createdEquipment, r.key)
                /\ added' = added \cup {r.key}
                /\ remoteEquip' = remoteEquip \cup {r.key}
                /\ inflight' = inflight \ {r}
                /\ IF pc = "addEquip" /\ Pending(EquipAdd, inflight \ {r}) = {}
                   THEN pc' = "adv_Equip" /\ advance("Adding equipment records")
                   ELSE UNCHANGED <<pc, steps>>
                /\ UNCHANGED <<issued, rb, dialog, busyIndicator, error>>
           ELSE /\ IF pc = "addEquip"
                   THEN rollbackEquipment("addEquip", "Equipment creation failed",
                                          inflight \ {r})
                   ELSE /\ inflight' = inflight \ {r}
                        /\ UNCHANGED <<pc, issued, rb, dialog, busyIndicator, error>>
                /\ UNCHANGED <<createdEquipment, added, remoteEquip, steps>>
        /\ lastCheck' = NoCheck
        /\ UNCHANGED <<ui, named, closedBy, fields, ctx, form, summary, whs>>

(* --------------------------------------------------- compensation (end) *)
\* each deletion runs in its own try/catch, which logs a failure and returns
DelSettled(out) == "fulfilled"

Count(seq, v) == Cardinality({i \in 1..Len(seq) : seq[i] = v})

\* (variant: Promise.all on deletions that rethrow - the first failure ends the wait)
AllOrFirstFailure(pend, out) == pend = {} \/ out = "error"

\* await Promise.allSettled(rollbackPromises): every deletion has settled
AllSettled(pend, out) == pend = {}

\* (variant: the tracking list is left as it is)
TrackingKept(tracked) == tracked

\* this.createdEquipment = []
TrackingCleared(tracked) == <<>>

\* rollbackEquipment(): one Del response; after the last one (allSettled) the
\* summary is logged and the tracking list is cleared.  The error being handled
\* goes on: thrown by process(), it reaches the catch of the Serial branch, which
\* calls rollbackEquipment() once more on what is tracked then, and after that
\* the catch of run()
rollbackResponse ==
    /\ pc = "rollback"
    /\ \E r \in Pending(EquipDel, inflight), out \in PlainOutcomes :
        LET results == Append(rb.results, DelSettled(out))
            pend    == rb.pending \ {r.key}
            del     == rb.deleted + (IF out = "item" THEN 1 ELSE 0)
            ndel    == rb.notDeleted + (IF out = "item" THEN 0 ELSE 1)
        IN  /\ Receive(r, DelSettled(out))
            /\ remoteEquip' = IF out = "item" THEN remoteEquip \ {r.key}
                              ELSE remoteEquip
            /\ IF AllSettled(pend, out)
               THEN LET tracked == TrackingCleared(createdEquipment)
                    IN  /\ summary' = [successful |-> Count(results, "fulfilled"),
                                       failed |-> Count(results, "rejected"),
                                       deleted |-> del, notDeleted |-> ndel]
                        /\ createdEquipment' = tracked
                        /\ IF rb.from = "process" /\ tracked # <<>>
                           THEN /\ Send(DelRequests(tracked), inflight \ {r})
                                /\ rb' = [active |-> TRUE, from |-> "run",
                                          pending |-> Range(tracked), results |-> <<>>,
                                          deleted |-> 0, notDeleted |-> 0]
                                /\ UNCHANGED <<pc, dialog, busyIndicator, error>>
                           ELSE /\ rb' = NoRollback
                                /\ RunCatch(error)
                                /\ inflight' = inflight \ {r}
                                /\ UNCHANGED issued
               ELSE /\ rb' = [rb EXCEPT !.pending = pend, !.results = results,
                                        !.deleted = del, !.notDeleted = ndel]
                    /\ inflight' = inflight \ {r}
                    /\ UNCHANGED <<summary, createdEquipment, pc, dialog, busyIndicator, error, issued>>
    /\ UNCHANGED <<ui, named, closedBy, aux, steps, ctx, form, added, whs>>

(* ------------------------------------------------------- receipt engine *)
\* process(lines): starts with the AddWhsHead request
process(ls, infl) ==
    /\ lines' = ls
    /\ Send(<<Call(AddWhsHead)>>, infl)
    /\ pc' = "AddWhsHead"

\* process() throws e: in the Serial branch the catch of run() rolls the
\* equipment back before e reaches the outer catch
processFailed(e, infl) ==
    IF item.INDI = "2"
    THEN rollbackEquipment("run", e, infl)
    ELSE /\ RunCatch(e)
         /\ inflight' = infl
         /\ UNCHANGED <<issued, rb>>

\* (variant: every serial line carries the whole received quantity)
serialLinesFullQty(sers) ==
    [i \in 1..Len(sers) |-> [BANO |-> sers[i], RVQA |-> screen.RVQA, EXPI |-> <<>>]]

\* const serialLines = serials.map(s => ({ BANO: s, RVQA: '1', EXPI: null }))
serialLines(sers) ==
    [i \in 1..Len(sers) |-> [BANO |-> sers[i], RVQA |-> <<"1">>, EXPI |-> <<>>]]

\* run(), Serial branch: after the equipment records, the receipt
receiveSerials ==
    /\ pc = "adv_Equip"
    /\ process(serialLines(serials), inflight)
    /\ UNCHANGED <<processed, diagnostic, ui, named, closedBy, aux, steps, ctx, form, equip, MSGN, STAT, replies, dialog, busyIndicator, error>>

\* (variant: the line of the Lot and confirm-only branches is given quantity
\* '1' like a line of the Serial branch)
singleLineOfOne(bano, rvqa, expi) == <<[BANO |-> bano, RVQA |-> <<"1">>, EXPI |-> expi]>>

\* [{ BANO: lot, RVQA: this.RVQA, EXPI: expi }] and
\* [{ BANO: null, RVQA: this.RVQA, EXPI: null }]
singleLine(bano, rvqa, expi) == <<[BANO |-> bano, RVQA |-> rvqa, EXPI |-> expi]>>

\* expDate.replace(/-/g, '')
expiOf(date) == Filter(date, DigitSet)

\* errors[] of the lot form
LotErrors(lotv, date) ==
    (IF lotv = <<>> \/ Len(lotv) > 20 \/ ~SerialPattern(lotv)
     THEN <<"Lot number required">> ELSE <<>>)
    \o (IF item.EXPD = "1" /\ date = <<>> THEN <<"Expiration date required">> ELSE <<>>)

\* promptLot(): Save, then checkLot(lot)
promptLotSave ==
    /\ pc = "promptLot"
    /\ \E entry \in EntryValues, date \in DateValues :
        LET lotv == trim(entry)
        IN  IF LotErrors(lotv, date) # <<>>
            THEN /\ validationError' = LotErrors(lotv, date)
                 /\ UNCHANGED <<pc, lot, net>>
            ELSE /\ lot' = [lot |-> lotv,
                            expi |-> IF item.EXPD = "1" THEN expiOf(date) ELSE <<>>]
                 /\ Send(<<Req(GetItmLot, lotv, <<>>)>>, inflight)
                 /\ pc' = "checkLot"
                 /\ validationError' = <<>>
    /\ UNCHANGED <<ui, named, closedBy, aux, steps, ctx, warning, promptFields, serials, equip, whs, replies,
                   dialog, busyIndicator, error>>

\* promptLot(): Cancel, Escape or X
promptLotCancel ==
    /\ pc = "promptLot"
    /\ Cancel("Lot input cancelled by user")
    /\ validationError' = <<>>
    /\ UNCHANGED <<ui, named, fields, lastCheck, steps, ctx, warning, promptFields, serials, lot, equip, whs, net,
                   replies>>

\* checkLot(): the response, then process() with the one lot line
checkLotResponse ==
    /\ pc = "checkLot"
    /\ \E r \in Pending(GetItmLot, inflight), out \in CheckOutcomes :
        /\ Receive(r, CheckSettled(out))
        /\ lastCheck' = [key |-> r.key, out |-> out]
        /\ IF CheckPasses(out)
           THEN /\ process(singleLine(lot.lot, screen.RVQA, lot.expi), inflight \ {r})
                /\ UNCHANGED <<dialog, busyIndicator, error>>
           ELSE /\ RunCatch(CheckError("Lot", out))
                /\ inflight' = inflight \ {r}
                /\ UNCHANGED <<issued, lines>>
    /\ UNCHANGED <<processed, diagnostic, ui, named, closedBy, fields, steps, ctx, form, equip, MSGN, STAT>>

\* promptConfirm(): Confirm, then process() with the one line without identifier
promptConfirmOk ==
    /\ pc = "promptConfirm"
    /\ process(singleLine(<<>>, screen.RVQA, <<>>), inflight)
    /\ UNCHANGED <<processed, diagnostic, ui, named, closedBy, aux, steps, ctx, form, equip, MSGN, STAT, replies, dialog, busyIndicator, error>>

\* promptConfirm(): Cancel, Escape or X
promptConfirmCancel ==
    /\ pc = "promptConfirm"
    /\ Cancel("Receipt cancelled by user")
    /\ UNCHANGED <<ui, named, fields, lastCheck, steps, ctx, form, equip, whs, net, replies>>

\* the value of a screen field that validateFields read
FieldValue(name) ==
    IF name \in screen.empty THEN ""
    ELSE CASE name = "PUNO" -> "PO1"
           [] name = "PNLI" -> "10"
           [] OTHER -> "x"

\* const packNumber = `${this.PUNO}_${this.PNLI}`
packNumber == <<FieldValue("PUNO"), "_", FieldValue("PNLI")>>

\* h.item.MSGN of the AddWhsHead response
ReturnedMSGN(out) == IF out = "item" THEN "M1" ELSE ""

\* (variant: a header response without MSGN is accepted)
HeadCreatedAnyItem(out) == out \in {"item", "nomsgn"}

\* !( !h || !h.item || !h.item.MSGN )
HeadCreated(out) == out = "item"

\* pack.record = { WHLO, MSGN: this.MSGN, PACN: packNumber, QLFR }
packRequest(msgn) == WhsReq(AddWhsPack, <<>>, <<>>, msgn, packNumber)

\* (variant: one pack number per line)
lineRequestOwnPack(rec, msgn) ==
    WhsReq(AddWhsLine, rec.BANO, rec.RVQA, msgn, packNumber \o <<"_">> \o rec.BANO)

\* line.record = { WHLO, MSGN: this.MSGN, PACN: packNumber, ..., RVQA, BANO }
lineRequest(rec, msgn) == WhsReq(AddWhsLine, rec.BANO, rec.RVQA, msgn, packNumber)

\* (variant: PrcWhsTran without the message number)
prcRequestNoMsgn(msgn) == WhsReq(PrcWhsTran, <<>>, <<>>, "", <<>>)

\* pr.record = { MSGN: this.MSGN, PRFL: '*EXE' }
prcRequest(msgn) == WhsReq(PrcWhsTran, <<>>, <<>>, msgn, <<>>)

\* statusCheck.record = { MSGN: this.MSGN }
statusRequest(msgn) == WhsReq(GetWhsHead, <<>>, <<>>, msgn, <<>>)

\* process(): AddWhsHead response, then the AddWhsPack request
addWhsHeadResponse ==
    /\ pc = "AddWhsHead"
    /\ \E out \in HeadOutcomes :
        /\ Receive(Call(AddWhsHead), IF out = "error" THEN "rejected" ELSE "fulfilled")
        /\ IF HeadCreated(out)
           THEN /\ MSGN' = ReturnedMSGN(out)
                /\ Send(<<packRequest(ReturnedMSGN(out))>>, inflight \ {Call(AddWhsHead)})
                /\ pc' = "AddWhsPack"
                /\ UNCHANGED <<rb, dialog, busyIndicator, error>>
           ELSE /\ processFailed("Warehouse transaction header creation failed",
                                 inflight \ {Call(AddWhsHead)})
                /\ UNCHANGED MSGN
    /\ lastCheck' = NoCheck
    /\ UNCHANGED <<processed, diagnostic, ui, named, closedBy, fields, steps, ctx, form, createdEquipment, remoteEquip, added, summary,
                   lines, STAT>>

\* process(): AddWhsPack response (its content is not looked at)
addWhsPackResponse ==
    /\ pc = "AddWhsPack"
    /\ \E r \in Pending(AddWhsPack, inflight), out \in Outcomes :
        /\ Receive(r, IF out = "error" THEN "rejected" ELSE "fulfilled")
        /\ IF out # "error"
           THEN /\ pc' = "sleep_Pack"
                /\ inflight' = inflight \ {r}
                /\ UNCHANGED <<issued, rb, dialog, busyIndicator, error>>
           ELSE processFailed("AddWhsPack failed", inflight \ {r})
    /\ UNCHANGED <<ui, named, closedBy, aux, steps, ctx, form, createdEquipment, remoteEquip, added, summary,
                   whs>>

\* this.WHSL as validateFields read it
location == IF screen.WHSL THEN "A1" ELSE ""

\* (variant: every line carries the location)
withLocationAlways(req) == [req EXCEPT !.WHSL = location]

\* if (!isNonMaterial) line.record.WHSL = this.WHSL
withLocation(req) ==
    IF isNonMaterial(item) THEN req ELSE [req EXCEPT !.WHSL = location]

\* the PrcWhsTran request
SendPrcWhsTran(infl) ==
    /\ Send(<<prcRequest(MSGN)>>, infl)
    /\ pc' = "PrcWhsTran"

\* process(): after the pause, one AddWhsLine per line, all sent at once
addWhsLines ==
    /\ pc = "sleep_Pack"
    /\ IF lines = <<>>
       THEN SendPrcWhsTran(inflight)
       ELSE /\ Send([i \in 1..Len(lines) |-> withLocation(lineRequest(lines[i], MSGN))],
                    inflight)
            /\ pc' = "AddWhsLine"
    /\ UNCHANGED <<ui, named, closedBy, aux, steps, ctx, form, equip, whs, replies, dialog, busyIndicator, error>>

\* (variant: Promise.race - the first line added ends the wait)
FirstLineAdded(infl) == TRUE

\* await Promise.all(lines.map(...)) resolves: no AddWhsLine is unanswered
AllLinesAdded(infl) == Pending(AddWhsLine, infl) = {}

\* process(): one AddWhsLine response; Promise.all rejects on the first failure
addWhsLineResponse ==
    \E r \in Pending(AddWhsLine, inflight), out \in PlainOutcomes :
        /\ Receive(r, IF out = "error" THEN "rejected" ELSE "fulfilled")
        /\ IF pc # "AddWhsLine"
           THEN /\ inflight' = inflight \ {r}
                /\ UNCHANGED <<pc, issued, rb, dialog, busyIndicator, error>>
           ELSE IF out = "error"
           THEN processFailed("AddWhsLine failed", inflight \ {r})
           ELSE IF ~AllLinesAdded(inflight \ {r})
           THEN /\ inflight' = inflight \ {r}
                /\ UNCHANGED <<pc, issued, rb, dialog, busyIndicator, error>>
           ELSE IF Len(lines) > 1
           THEN /\ pc' = "sleep_Lines"
                /\ inflight' = inflight \ {r}
                /\ UNCHANGED <<issued, rb, dialog, busyIndicator, error>>
           ELSE /\ SendPrcWhsTran(inflight \ {r})
                /\ UNCHANGED <<rb, dialog, busyIndicator, error>>
        /\ UNCHANGED <<ui, named, closedBy, aux, steps, ctx, form, createdEquipment, remoteEquip, added,
                       summary, whs>>

\* process(): after the pause for several lines, the PrcWhsTran request
prcWhsTran ==
    /\ pc = "sleep_Lines"
    /\ SendPrcWhsTran(inflight)
    /\ UNCHANGED <<ui, named, closedBy, aux, steps, ctx, form, equip, whs, replies, dialog, busyIndicator, error>>

\* the PrcWhsTran request rejects, resolves with a record, or resolves without
PrcSettled(out) ==
    CASE out = "error" -> "rejected"
      [] out = "item" -> "fulfilled"
      [] OTHER -> "norecord"

\* (variant: any resolved PrcWhsTran is taken for processed)
PrcResolved(out) == out # "error"

\* !( !prc || !prc.item )
PrcReturnedRecord(out) == out = "item"

\* process(): PrcWhsTran response
prcWhsTranResponse ==
    /\ pc = "PrcWhsTran"
    /\ \E r \in Pending(PrcWhsTran, inflight), out \in Outcomes :
        /\ Receive(r, PrcSettled(out))
        /\ IF PrcReturnedRecord(out)
           THEN /\ pc' = "sleep_Status"
                /\ inflight' = inflight \ {r}
                /\ UNCHANGED <<issued, rb, dialog, busyIndicator, error>>
           ELSE processFailed("Transaction processing failed", inflight \ {r})
    /\ UNCHANGED <<ui, named, closedBy, aux, steps, ctx, form, createdEquipment, remoteEquip, added, summary,
                   whs>>

\* process(): after the pause, the GetWhsHead status request
getWhsHead ==
    /\ pc = "sleep_Status"
    /\ Send(<<statusRequest(MSGN)>>, inflight)
    /\ pc' = "GetWhsHead"
    /\ UNCHANGED <<ui, named, closedBy, aux, steps, ctx, form, equip, whs, replies, dialog, busyIndicator, error>>

\* (variant: the test-message status is taken for success as well)
StatusFailedBut92(st) == st \notin {"90", "92"}

\* if (transactionStatus !== '90')
StatusFailed(st) == st # "90"

\* (variant: status '40' is not recognised as a package/line status)
troubleshootingInfoBut40(st) ==
    IF st \in {"15", "20"} THEN "Header level error"
    ELSE IF st \in {"25", "30", "35"} THEN "Package/Line level error"
    ELSE "Processing error"

\* troubleshootingInfo: which level the status points to
troubleshootingInfo(st) ==
    IF st \in {"15", "20"} THEN "Header level error"
    ELSE IF st \in {"25", "30", "35", "40"} THEN "Package/Line level error"
    ELSE "Processing error"

\* statuses a transaction passes through on its way to '90'
InProgress == {"10", "20", "30", "40"}

\* the remote system finishes a transaction it was told to process, without
\* the run reading it: before the status request is answered, or after the
\* run has read a status the transaction was still passing through
remoteProcesses ==
    /\ \E i \in 1..Len(issued) : issued[i].api = PrcWhsTran
    /\ ~processed
    /\ STAT \in {"none"} \cup InProgress
    /\ processed' = TRUE
    /\ UNCHANGED <<ui, named, closedBy, aux, pc, steps, ctx, form, equip, lines, MSGN, STAT,
                   diagnostic, net, replies, dialog, busyIndicator, error>>

\* process(): the status response.  '90' lets process() return; any other
\* status rolls the tracked equipment back and throws
getWhsHeadResponse ==
    /\ pc = "GetWhsHead"
    /\ \E r \in Pending(GetWhsHead, inflight), out \in Outcomes, st \in StatusValues :
        /\ Receive(r, IF out = "error" THEN "rejected" ELSE "fulfilled")
        /\ processed => st = "90"
        /\ processed' = (processed \/ (out = "item" /\ st = "90"))
        /\ IF out # "item"
           THEN /\ processFailed("Failed to retrieve transaction status",
                                 inflight \ {r})
                /\ UNCHANGED <<STAT, diagnostic, steps>>
           ELSE /\ STAT' = st
                /\ diagnostic' = IF StatusFailed(st) THEN troubleshootingInfo(st)
                                                     ELSE diagnostic
                /\ IF StatusFailed(st)
                   THEN /\ IF createdEquipment # <<>>
                           THEN rollbackEquipment("process", "Transaction processing failed.",
                                                  inflight \ {r})
                           ELSE processFailed("Transaction processing failed.",
                                              inflight \ {r})
                        /\ UNCHANGED steps
                   ELSE /\ inflight' = inflight \ {r}
                        /\ IF item.INDI = "2"
                           THEN pc' = "adv_Queue" /\ advance("Queueing transactions")
                           ELSE pc' = "adv_Process" /\ advance("Process")
                        /\ UNCHANGED <<issued, rb, dialog, busyIndicator, error>>
    /\ UNCHANGED <<ui, named, closedBy, aux, ctx, form, createdEquipment, remoteEquip, added, summary, lines,
                   MSGN>>

\* run(), Serial branch: this.createdEquipment = [] after process() returned
clearTracking ==
    /\ pc = "adv_Queue"
    /\ createdEquipment' = <<>>
    /\ pc' = "adv_Final"
    /\ advance("Finalizing message")
    /\ UNCHANGED <<ui, named, closedBy, aux, ctx, form, remoteEquip, added, rb, summary, whs, net, replies,
                   dialog, busyIndicator, error>>

\* run(), Serial branch: advance('Process')
finalizeMessage ==
    /\ pc = "adv_Final"
    /\ pc' = "adv_Process"
    /\ advance("Process")
    /\ UNCHANGED <<ui, named, closedBy, aux, ctx, form, equip, whs, net, replies, dialog, busyIndicator, error>>

\* run(): progressDone(); showSuccessDialog()
showSuccessDialog ==
    /\ pc = "adv_Process"
    /\ pc' = "done"
    /\ dialog' = "Success"
    /\ busyIndicator' = busy(FALSE)
    /\ UNCHANGED <<ui, named, closedBy, aux, steps, ctx, form, equip, whs, net, replies, error>>

(* ------------------------------------------------------------ the alert *)
\* showSuccessDialog() passes shouldRefresh = true, showErrorDialog() leaves
\* it at its default false
shouldRefresh(title) == title = "Success"

\* alert(): the OK button - close, then if (shouldRefresh) this.refresh()
\* (refresh() presses F5 on the controller)
alertOk ==
    /\ dialog # "none"
    /\ alertClosed = ""
    /\ alertClosed' = "OK"
    /\ refreshed' = shouldRefresh(dialog)
    /\ UNCHANGED <<named, closedBy, aux, pc, steps, ctx, form, equip, whs, net, replies,
                   dialog, busyIndicator, error, auto>>

\* alert(): Escape or X (closeOnEscape: true) - the close handler removes the
\* content and does nothing else
alertClose ==
    /\ dialog # "none"
    /\ alertClosed = ""
    /\ alertClosed' = "close"
    /\ UNCHANGED <<named, closedBy, aux, pc, steps, ctx, form, equip, whs, net, replies,
                   refreshed, dialog, busyIndicator, error, auto>>

(* ------------------------------------------------------------ the system *)
Next ==
    \/ validateFields
    \/ getPOLine
    \/ getPOLineResponse
    \/ lookups
    \/ lookupsHeader
    \/ lookupsWhs
    \/ lookupsItem
    \/ lookupsRem
    \/ lookupsCust
    \/ warnings
    \/ dialogWarnProceed
    \/ dialogWarnCancel
    \/ branchByControlMethod
    \/ promptSerialsSave
    \/ promptSerialsCancel
    \/ checkSerResponse
    \/ addEquipResponse
    \/ rollbackResponse
    \/ receiveSerials
    \/ promptLotSave
    \/ promptLotCancel
    \/ checkLotResponse
    \/ promptConfirmOk
    \/ promptConfirmCancel
    \/ addWhsHeadResponse
    \/ addWhsPackResponse
    \/ addWhsLines
    \/ addWhsLineResponse
    \/ prcWhsTran
    \/ prcWhsTranResponse
    \/ getWhsHead
    \/ getWhsHeadResponse
    \/ clearTracking
    \/ finalizeMessage
    \/ showSuccessDialog

Spec == Init /\ [][Next]_vars

\* the run together with the operator dismissing the alert it ends with
NextAlert ==
    \/ Next
    \/ alertOk
    \/ alertClose

SpecAlert == Init /\ [][NextAlert]_vars

\* the run together with the remote system processing the transaction
NextRemote ==
    \/ Next
    \/ remoteProcesses

SpecRemote == Init /\ [][NextRemote]_vars

(* ------------------------------------------------ the serial form alone *)
\* the state in which promptSerials() has opened its form for a serial item
\* with a whole quantity n: validation, the lookups and the warnings are done
InitForm ==
    \E n \in 1..MaxFields :
        /\ pc = "promptSerials"
        /\ steps = <<"Validate", "Get PO line", "Lookups", "Warnings">>
        /\ screen = [RVQA |-> NumStr(n), WHSL |-> TRUE, empty |-> {}]
        /\ poLine = [RORC |-> "0", RORN |-> "CO1", GETY |-> "20"]
        /\ isWmsWhs = FALSE
        /\ item = [INDI |-> "2", TPCD |-> "01", EXPD |-> "0"]
        /\ RMQA = <<"3", "0">>
        /\ CUNO = ""
        /\ warning = <<>>
        /\ promptFields = LoopCount(num(NumStr(n)))
        /\ validationError = <<>>
        /\ serials = <<>>
        /\ lot = [lot |-> <<>>, expi |-> <<>>]
        /\ lines = <<>>
        /\ inflight = {}
        /\ issued = <<Call(GetLine), Call(GetHead), Call(WhsGet), Call(GetItmBasic),
                      Call(GetBasicData2)>>
        /\ replies = {<<issued[i], "fulfilled">> : i \in 1..Len(issued)}
        /\ createdEquipment = <<>>
        /\ remoteEquip = {}
        /\ added = {}
        /\ rb = NoRollback
        /\ summary = NoSummary
        /\ MSGN = ""
        /\ STAT = "none"
        /\ lastCheck = NoCheck
        /\ fields = <<>>
        /\ diagnostic = ""
        /\ processed = FALSE
        /\ alertClosed = ""
        /\ refreshed = FALSE
        /\ named = <<>>
        /\ closedBy = ""
        /\ dialog = "none"
        /\ busyIndicator = busy(TRUE)
        /\ error = ""
        /\ InitAutoComplete

NextForm ==
    \/ promptSerialsSaveWide
    \/ promptSerialsCancel

SpecForm == InitForm /\ [][NextForm]_vars

(* ------------------------------------------------------------ properties *)
IssuedSet == Range(issued)

\* the requests sent by the step being taken
NewRequests == SubSeq(issued', Len(issued) + 1, Len(issued'))

DelIssued(s) == Req(EquipDel, s, <<>>) \in IssuedSet

\* a request of this transaction has been sent
Issued(api) == \E i \in 1..Len(issued) : issued[i].api = api

\* the requests of this transaction that have been sent
Sent(api) == {issued[i] : i \in {k \in 1..Len(issued) : issued[k].api = api}}

KeysOf(reqs) == {r.key : r \in reqs}

RunFailed == dialog = "Error"

CreationFailed == error = "Equipment creation failed"

\* C1 (as claimed): once the run has reported failure, every equipment record
\* created by a successful MMS240MI/Add of the run has had an MMS240MI/Del
\* issued for it - also a record whose Add completes after another Add of the
\* batch has failed.
C1_NoOrphanedEquipment ==
    RunFailed => \A s \in added : DelIssued(s)

\* C2: when an Add of the batch fails after others succeeded, the rollback it
\* starts sends a Del for exactly the records created so far and nothing
\* else; no later Del is sent in that run; and when rollbackEquipment returns
\* (whatever the deletions answered) the tracking list is empty and the run
\* ends in that same step.
C2_PartialCreationCompensated ==
    [][ /\ (pc = "addEquip" /\ error = "" /\ error' = "Equipment creation failed")
            => /\ Range(NewRequests) = {Req(EquipDel, s, <<>>) : s \in added}
               /\ added = Range(createdEquipment)
               /\ (added = {} => pc' = "done" /\ createdEquipment' = <<>>)
        /\ (CreationFailed /\ Len(issued') > Len(issued)) => FALSE
        /\ (CreationFailed /\ rb.active /\ ~rb'.active)
            => /\ createdEquipment' = <<>>
               /\ pc' = "done"
               /\ RunFailed'
      ]_vars

\* C2 witness: one Add succeeded, another failed, the Del of the created
\* record failed too, and the run has ended with an empty tracking list.
C2_Witness ==
    /\ pc = "done"
    /\ CreationFailed
    /\ summary.notDeleted >= 1
    /\ createdEquipment = <<>>
    /\ inflight = {}

\* C3: status '90' - and only '90' - makes the run report success, with the
\* tracking list cleared and no MMS240MI/Del ever sent; with any other status
\* a Del has been sent for every tracked equipment record and the run reports
\* failure.
C3_OnlyStatus90Succeeds ==
    /\ STAT = "90" =>
        /\ \A r \in IssuedSet : r.api # EquipDel
        /\ ~RunFailed
        /\ pc = "done" => dialog = "Success" /\ createdEquipment = <<>>
    /\ STAT \notin {"none", "90"} =>
        /\ \A s \in Range(serials) : DelIssued(s)
        /\ dialog # "Success"
        /\ pc = "done" => RunFailed
    /\ dialog = "Success" => STAT = "90"

\* C3 witness: a Serial run of two serials, status '90', success reported.
C3_Witness ==
    /\ pc = "done"
    /\ STAT = "90"
    /\ dialog = "Success"
    /\ Len(serials) = 2
    /\ added = Range(serials)

\* C3 second case reached: another status, both tracked records rolled back.
C3_FailureReached ==
    /\ pc = "done"
    /\ STAT = "45"
    /\ RunFailed
    /\ Len(serials) = 2
    /\ summary.deleted = 2

\* the requested quantity, in tenths
Requested == num(screen.RVQA)

SerialItem == item.INDI = "2"

LineRequests == Sent(AddWhsLine)

Fulfilled(r) == <<r, "fulfilled">> \in replies

Rejected(r) == <<r, "rejected">> \in replies

\* C4: for a whole requested quantity N with 0 <= N <= 25 on a serial item,
\* the serial form holds exactly N input fields, and a run that reports
\* success has sent exactly N AddWhsLine requests, one per supplied serial,
\* each with quantity '1'.  (Quantities that are not whole counts cannot be
\* the number of identifiers; they never reach submission.)
C4_SerialBranchPromptsAndSubmitsN ==
    LET n == Requested
    IN  (SerialItem /\ n >= 0 /\ n % 10 = 0 /\ n <= MAX_SERIALS * 10) =>
            /\ promptFields # -1 => promptFields * 10 = n
            /\ pc \in {"checkSer", "addEquip", "adv_Equip"} => Len(serials) * 10 = n
            /\ dialog = "Success" =>
                /\ Len(serials) * 10 = n
                /\ Cardinality(LineRequests) * 10 = n
                /\ KeysOf(LineRequests) = Range(serials)
                /\ \A r \in LineRequests : r.qty = <<"1">>

\* C4 witness: two serials requested, prompted for, and received with success.
C4_Witness ==
    /\ dialog = "Success"
    /\ SerialItem
    /\ Requested = 20
    /\ promptFields = 2
    /\ Cardinality(LineRequests) = 2

LimitError == error = "Cannot process serials. Maximum allowed"

ReadOnlyLookups ==
    {GetLine, GetHead, WhsGet, GetItmBasic, GetBasicData2, GetOrderHead}

\* C5 (as claimed): when the limit error is raised, no MI request of any kind
\* has been issued in the run.
C5_NoRemoteCallBeforeLimitError ==
    LimitError => issued = <<>>

\* C5 (amended): for a requested quantity above 25 on a serial item, the
\* serial form is never shown; a run that gets past the warnings ends with
\* the limit error; and the only requests the run ever issues are the
\* read-only lookups - no GetItmLot, no MMS240MI and no MHS850MI request.
C5_LimitErrorBeforePromptAndWrites ==
    LET over == SerialItem /\ Requested > MAX_SERIALS * 10
    IN
    /\ over =>
        /\ promptFields = -1
        /\ \A r \in IssuedSet : r.api \in ReadOnlyLookups
        /\ dialog # "Success"
        /\ (pc = "done" /\ "Warnings" \in Range(steps)) => RunFailed /\ LimitError
    /\ LimitError =>
        /\ over
        /\ pc = "done" /\ RunFailed /\ inflight = {}

\* C5 witness: 26 serials requested; the run has ended with the limit error
\* after its lookups.
C5_Witness ==
    /\ pc = "done"
    /\ LimitError
    /\ Requested = 260
    /\ Call(GetItmBasic) \in IssuedSet

RollbackStarts == ~rb.active /\ rb'.active

RollbackReturns == rb.active /\ ~rb'.active

\* C6: rollbackEquipment sends, at once, one Del for every record tracked
\* when it is invoked; while it waits, every Del not yet answered stays
\* awaited whatever the others answered, and the error being handled is
\* untouched; it returns only when every Del has been answered, with an
\* empty tracking list and the same error, which then ends the run.
C6_RollbackDeletesEachIndependently ==
    [][ /\ RollbackStarts =>
            /\ createdEquipment # <<>>
            /\ Len(NewRequests) = Len(createdEquipment)
            /\ \A i \in 1..Len(createdEquipment) :
                   NewRequests[i] = Req(EquipDel, createdEquipment[i], <<>>)
            /\ Range(NewRequests) \subseteq inflight'
            /\ rb'.pending = Range(createdEquipment)
        /\ (rb.active /\ rb'.active) =>
            /\ \A s \in rb'.pending : Req(EquipDel, s, <<>>) \in inflight'
            /\ error' = error
            /\ dialog' = "none"
            /\ pc' = "rollback"
        /\ RollbackReturns =>
            /\ createdEquipment' = <<>>
            /\ Pending(EquipDel, inflight') = {}
            /\ \A r \in Pending(EquipDel, IssuedSet) : Fulfilled(r)'
            /\ error' = error
            /\ pc' = "done" /\ RunFailed'
      ]_vars

\* C6 witness: a rollback of two records in which one Del failed and the
\* other succeeded has returned.
C6_Witness ==
    /\ summary.deleted = 1
    /\ summary.notDeleted = 1
    /\ createdEquipment = <<>>
    /\ pc = "done"

\* C7 (as claimed): the logged summary counts equal the numbers of Del calls
\* that succeeded and that failed.
C7_SummaryCountsMatchOutcomes ==
    summary.successful # -1 =>
        /\ summary.successful = summary.deleted
        /\ summary.failed = summary.notDeleted

\* the workflow step a request belongs to (0: compensation)
StepOf(api) ==
    CASE api = GetLine -> 2
      [] api \in ReadOnlyLookups \ {GetLine} -> 3
      [] api \in {GetItmLot, EquipAdd} -> 5
      [] api \in {AddWhsHead, AddWhsPack, AddWhsLine, PrcWhsTran, GetWhsHead} -> 6
      [] OTHER -> 0

SerialOrder == <<"Validate", "Get PO line", "Lookups", "Warnings",
                 "Adding equipment records", "Queueing transactions",
                 "Finalizing message", "Process">>

OtherOrder == <<"Validate", "Get PO line", "Lookups", "Warnings", "Process">>

IsPrefix(s, t) == Len(s) <= Len(t) /\ s = SubSeq(t, 1, Len(s))

Done(label) == label \in Range(steps)

\* the branch-specific input and checks of the run have completed
BranchCompleted ==
    CASE item.INDI = "2" -> Done("Adding equipment records")
      [] item.INDI = "3" -> Fulfilled(Req(GetItmLot, lot.lot, <<>>))
      [] OTHER -> pc = "promptConfirm"

\* what must have completed before a request of step n is sent
Completed(n) ==
    CASE n = 2 -> Done("Validate")
      [] n = 3 -> Done("Get PO line")
      [] n = 5 -> Done("Warnings")
      [] n = 6 -> /\ Done("Warnings")
                  /\ BranchCompleted \/ Call(AddWhsHead) \in IssuedSet
      [] OTHER -> TRUE

PromptOpen == pc \in {"promptSerials", "promptLot", "promptConfirm"}

\* C8: the steps complete in the fixed order; a request of a step is sent
\* only when no step has failed and the step before it has completed; a
\* warning or a prompt opens only after the lookups (the warnings) completed;
\* after a failure the only requests sent are compensation Dels.
C8_StepsInFixedOrder ==
    [][ /\ IsPrefix(steps', SerialOrder) \/ IsPrefix(steps', OtherOrder)
        /\ \A i \in 1..Len(NewRequests) :
             \/ NewRequests[i].api = EquipDel
             \/ /\ error = "" /\ dialog = "none"
                /\ \/ Completed(StepOf(NewRequests[i].api))
                   \/ /\ NewRequests[i].api = AddWhsHead   \* sent as the lot check answers
                      /\ item.INDI = "3" /\ pc = "checkLot"
                      /\ Done("Warnings") /\ BranchCompleted'
        /\ (warning' # <<>> /\ warning = <<>>) => error = "" /\ Done("Lookups")
        /\ (PromptOpen' /\ ~PromptOpen) => error = "" /\ Done("Warnings")
        /\ (error # "" /\ Len(NewRequests) > 0) => FALSE
      ]_vars

\* C8 witness: a Serial run went through every step and reported success.
C8_Witness ==
    /\ dialog = "Success"
    /\ steps = SerialOrder
    /\ Len(serials) >= 1
    /\ Issued(GetWhsHead)

\* C9 (as claimed): the requests in flight at any time belong to one step
\* (compensation counted as a step of its own), and none is in flight when
\* the final report is shown.
C9_NoTwoStepsOverlap ==
    /\ \A p, q \in inflight : StepOf(p.api) = StepOf(q.api)
    /\ dialog # "none" => inflight = {}

\* C10: PrcWhsTran is sent only after the pack request and every AddWhsLine
\* of the run were answered successfully; once a line attachment has failed
\* no PrcWhsTran is ever sent, the run does not report success, and in the
\* Serial branch a Del has been sent for every tracked equipment record.
C10_ProcessOnlyAfterAllLines ==
    LET sent == LineRequests
    IN
    /\ Issued(PrcWhsTran) =>
        /\ \E r \in Sent(AddWhsPack) : Fulfilled(r)
        /\ Cardinality(sent) = Len(lines)
        /\ \A r \in sent : Fulfilled(r)
    /\ (\E r \in sent : Rejected(r)) =>
        /\ ~Issued(PrcWhsTran)
        /\ dialog # "Success"
        /\ error = "AddWhsLine failed"
        /\ pc \in {"rollback", "done"}
        /\ SerialItem => \A s \in Range(serials) : DelIssued(s)
        /\ pc = "done" => RunFailed

\* C10 witness: Serial run of two lines, one attachment failed, the run ended
\* after compensation without PrcWhsTran.
C10_Witness ==
    /\ pc = "done"
    /\ SerialItem
    /\ Len(lines) = 2
    /\ \E r \in LineRequests : Rejected(r)
    /\ summary.successful = 2

\* how many requests of this transaction the run has sent
Times(api) == Cardinality({i \in 1..Len(issued) : issued[i].api = api})

PackRequests == Sent(AddWhsPack)

HeaderCreated == Fulfilled(Call(AddWhsHead)) /\ MSGN # ""

\* C11: a run sends at most one AddWhsPack, and exactly one as soon as its
\* header was created, whatever the number of lines and the control method;
\* that pack has number PUNO_PNLI, and every AddWhsLine of the run carries
\* the pack number and the message number of that pack request, which is the
\* run's message number.
C11_OnePackForAllLines ==
    LET packs    == PackRequests
        packings == Times(AddWhsPack)
    IN
    /\ packings <= 1
    /\ HeaderCreated => packings = 1
    /\ \A p \in packs :
        /\ p.PACN = <<"PO1", "_", "10">>
        /\ p.MSGN = MSGN /\ MSGN # ""
    /\ \A l \in LineRequests :
        /\ packings = 1
        /\ \A p \in packs : l.PACN = p.PACN /\ l.MSGN = p.MSGN
        /\ l.MSGN = MSGN

\* C11 witness: a Serial run attached two lines to its one pack.
C11_Witness ==
    /\ SerialItem
    /\ Cardinality(LineRequests) = 2
    /\ Times(AddWhsPack) = 1
    /\ Times(AddWhsLine) = 2

\* C11, other control methods: a Lot run and a run without control method
\* attached their single line to one pack.
C11_LotReached ==
    item.INDI = "3" /\ Cardinality(LineRequests) = 1 /\ Times(AddWhsPack) = 1

C11_ConfirmReached ==
    item.INDI \in {"0", "1"} /\ Cardinality(LineRequests) = 1 /\ Times(AddWhsPack) = 1

WhsFollowers == {AddWhsPack, AddWhsLine, PrcWhsTran, GetWhsHead}

HeaderFailed == error = "Warehouse transaction header creation failed"

\* C12: a run sends at most one AddWhsHead and at most one PrcWhsTran; every
\* AddWhsPack, AddWhsLine, PrcWhsTran and GetWhsHead request carries the
\* message number 'M1' that the AddWhsHead response returned; and when the
\* header answer held no MSGN (or was an error) none of them is ever sent.
C12_OneHeaderOneMessageNumber ==
    /\ Times(AddWhsHead) <= 1
    /\ Times(PrcWhsTran) <= 1
    /\ \A i \in 1..Len(issued) : issued[i].api \in WhsFollowers =>
        /\ issued[i].MSGN = "M1"
        /\ Fulfilled(Call(AddWhsHead))
        /\ ~HeaderFailed
    /\ HeaderFailed =>
        /\ MSGN = ""
        /\ \A api \in WhsFollowers : ~Issued(api)
        /\ pc \in {"rollback", "done"}

\* C12 witness: a run sent pack, two lines, PrcWhsTran and the status poll.
C12_Witness ==
    /\ Times(AddWhsPack) = 1
    /\ Times(AddWhsLine) = 2
    /\ Times(PrcWhsTran) = 1
    /\ Times(GetWhsHead) = 1
    /\ MSGN = "M1"

\* C12, second case: the header request resolved without a message number
\* and the run has ended.
C12_NoMsgnReached ==
    /\ HeaderFailed
    /\ Fulfilled(Call(AddWhsHead))
    /\ pc = "done"

OncePerRun == ReadOnlyLookups \cup {AddWhsHead, AddWhsPack, PrcWhsTran, GetWhsHead}

OncePerKey == {GetItmLot, EquipAdd, AddWhsLine}

\* C13: no request is sent twice.  Each lookup, AddWhsHead, AddWhsPack,
\* PrcWhsTran and GetWhsHead is sent at most once in a run; no GetItmLot,
\* MMS240MI/Add or AddWhsLine request is sent twice for the same identifier;
\* the status poll is sent only after PrcWhsTran resolved with a record, and
\* a run that reports success has polled exactly once.
C13_NoRequestRetried ==
    /\ LET once == {i \in 1..Len(issued) : issued[i].api \in OncePerRun}
       IN  Cardinality({issued[i].api : i \in once}) = Cardinality(once)
    /\ LET keyed == {i \in 1..Len(issued) : issued[i].api \in OncePerKey}
       IN  Cardinality({issued[i] : i \in keyed}) = Cardinality(keyed)
    /\ Issued(GetWhsHead) =>
         \E r \in Sent(PrcWhsTran) : Fulfilled(r)
    /\ dialog = "Success" => Times(GetWhsHead) = 1

\* C13 witness: a Serial run of two serials has checked, created and attached
\* both and polled the status.
C13_Witness ==
    /\ Times(GetItmLot) = 2
    /\ Times(EquipAdd) = 2
    /\ Times(AddWhsLine) = 2
    /\ Times(GetWhsHead) = 1
    /\ dialog = "Success"

\* C13, PrcWhsTran resolved without a record: the run failed without a poll.
C13_NoRecordReached ==
    /\ \E r \in Pending(PrcWhsTran, IssuedSet) : <<r, "norecord">> \in replies
    /\ pc = "done"
    /\ ~Issued(GetWhsHead)

\* an existence check is answered in this step while the run waits for it
CheckAnswered ==
    /\ pc \in {"checkSer", "checkLot"}
    /\ lastCheck' # lastCheck
    /\ lastCheck' # NoCheck

\* C14: when an existence check the run waits for is answered - the single
\* lot check and each serial check alike - then: a not-found rejection
\* (statusCode 400), no record, or a record of another item or identifier
\* lets the check pass (no error; the run goes on once every check passed);
\* a record of this item and identifier ends the run with the 'already
\* exists' error; any other rejection ends the run with that remote error.
C14_ExistenceCheckSemantics ==
    [][ CheckAnswered =>
          LET out == lastCheck'.out
              req == Req(GetItmLot, lastCheck'.key, <<>>)
              last == Pending(GetItmLot, inflight') = {}
          IN  /\ req \in inflight /\ req \notin inflight'
              /\ out \in {"notfound", "empty", "other"} =>
                   /\ error' = "" /\ dialog' = "none"
                   /\ <<req, "fulfilled">> \in replies'
                   /\ IF ~last THEN pc' = pc
                      ELSE IF pc = "checkSer" THEN pc' = "addEquip"
                      ELSE pc' = "AddWhsHead"
              /\ out = "match" =>
                   /\ pc' = "done" /\ RunFailed'
                   /\ error' = IF pc = "checkSer" THEN "Serial already exists"
                               ELSE "Lot already exists"
              /\ out = "error" =>
                   /\ pc' = "done" /\ RunFailed'
                   /\ error' = "Remote error"
      ]_vars

\* C14 witness: the last serial check of two was answered with not-found and
\* equipment creation has started.
C14_Witness ==
    /\ pc = "addEquip"
    /\ lastCheck.out = "notfound"
    /\ Len(serials) = 2
    /\ Times(EquipAdd) = 2

\* C14, further cases reached: a lot that exists, a lot check that passed with
\* an empty answer, a serial check rejected with another error.
C14_LotExistsReached ==
    pc = "done" /\ error = "Lot already exists" /\ lastCheck.out = "match"

C14_LotPassedReached ==
    pc = "AddWhsHead" /\ item.INDI = "3" /\ lastCheck.out = "empty"

C14_SerialErrorReached ==
    pc = "done" /\ error = "Remote error" /\ lastCheck.out = "error" /\ SerialItem

\* the rule for one identifier: not empty, at most 20 characters, only A-Z,
\* 0-9 and hyphen
RuleOk(val) ==
    /\ val # <<>>
    /\ Len(val) <= 20
    /\ \A k \in 1..Len(val) : val[k] \in Upper \cup DigitSet \cup {"-"}

\* positions of the saved entries that violate the rule
Violating == {i \in 1..Len(fields) : ~RuleOk(trim(fields[i]))}

\* positions named by the message in the form
Reported == {validationError[2][k][1] : k \in 1..Len(validationError[2])}

\* C15: a saved batch with one or more entries violating the rule is
\* rejected - the form stays open and nothing is resolved - and its one
\* message names every violating position, each once; promptSerials resolves
\* only with the trimmed entries of a batch without violation.
C15_AllViolationsReported ==
    LET bad == Violating
    IN
    /\ bad # {} =>
        /\ pc = "promptSerials"
        /\ serials = <<>>
        /\ validationError[1] = "Invalid or blank input in"
        /\ Reported = bad
        /\ Len(validationError[2]) = Cardinality(bad)
    /\ serials # <<>> =>
        /\ bad = {}
        /\ Len(serials) = Len(fields)
        /\ \A i \in 1..Len(serials) : serials[i] = trim(fields[i]) /\ RuleOk(serials[i])

\* C15 witness: both entries of a batch of two violate the rule and both are
\* named.
C15_Witness ==
    /\ pc = "promptSerials"
    /\ Cardinality(Violating) = 2
    /\ Reported = {1, 2}

\* C15, mixed batch reached: only the second entry violates the rule.
C15_SecondOnlyReached ==
    pc = "promptSerials" /\ Violating = {2} /\ Reported = {2}

\* pairs of positions of the saved form that hold the same identifier
EqualPairs ==
    {p \in (1..Len(fields)) \X (1..Len(fields)) :
        p[1] < p[2] /\ trim(fields[p[1]]) = trim(fields[p[2]])}

\* C16: a saved batch whose entries all pass the rule but of which two or
\* more are equal is rejected whatever positions the equal ones occupy - the
\* form stays open, nothing is resolved, and its message lists exactly the
\* repeated identifiers - and the list promptSerials resolves with never holds
\* the same identifier twice.
C16_DuplicatesRejected ==
    /\ (Violating = {} /\ EqualPairs # {}) =>
        /\ pc = "promptSerials"
        /\ serials = <<>>
        /\ validationError[1] = "Duplicates detected"
        /\ Range(validationError[2]) = {trim(fields[p[2]]) : p \in EqualPairs}
        /\ Len(validationError[2]) = Cardinality(Range(validationError[2]))
    /\ \A i, j \in 1..Len(serials) : i # j => serials[i] # serials[j]

\* C16 witness: in a form of three the first and the last entry are equal and
\* the batch is rejected.
C16_Witness ==
    /\ Len(fields) = 3
    /\ Violating = {}
    /\ EqualPairs = {<<1, 3>>}
    /\ pc = "promptSerials"
    /\ validationError[1] = "Duplicates detected"

\* C16, equal entries first and middle.
C16_FirstMiddleReached ==
    /\ Len(fields) = 3 /\ Violating = {} /\ EqualPairs = {<<1, 2>>}
    /\ validationError[1] = "Duplicates detected"

\* C16, equal entries middle and last.
C16_MiddleLastReached ==
    /\ Len(fields) = 3 /\ Violating = {} /\ EqualPairs = {<<2, 3>>}
    /\ validationError[1] = "Duplicates detected"

\* C16, a batch of three distinct identifiers is resolved.
C16_ResolvedReached ==
    Len(serials) = 3 /\ EqualPairs = {} /\ pc = "checkSer"

\* the transactions that change remote data
WriteApis == {EquipAdd, EquipDel, AddWhsHead, AddWhsPack, AddWhsLine, PrcWhsTran}

NoWriteIssued == \A i \in 1..Len(issued) : issued[i].api \notin WriteApis

WarningCancelled == error = "Operation cancelled by user"

\* C17: while the over-receipt warning is open the requested quantity exceeds
\* the remaining one and the warning shows their difference; with such
\* quantities the Warnings step completes only by Proceed in that warning;
\* the warning is left only by Proceed or by a cancel that ends the run with
\* the cancellation error; once a warning was cancelled the run is over, no
\* write request has been sent and none is sent afterwards.
C17_OverReceiptNeedsProceed ==
    /\ [](pc = "warnOver" =>
            /\ num(screen.RVQA) > num(RMQA)
            /\ warning[1] = "Over-receipt of"
            /\ warning[2] + num(RMQA) = num(screen.RVQA))
    /\ [](WarningCancelled =>
            pc = "done" /\ dialog = "Error" /\ NoWriteIssued /\ inflight = {})
    /\ [][/\ (~Done("Warnings") /\ Done("Warnings")' /\ num(screen.RVQA) > num(RMQA))
              => pc = "warnOver"
          /\ (pc = "warnOver" /\ pc' # "warnOver")
              => \/ Done("Warnings")' /\ error' = ""
                 \/ WarningCancelled' /\ pc' = "done" /\ ~Done("Warnings")'
          /\ WarningCancelled => (issued' = issued /\ error' = error)]_vars

\* C17 witness: the over-receipt warning was cancelled and the run has ended.
C17_Witness ==
    /\ WarningCancelled
    /\ num(screen.RVQA) > num(RMQA)
    /\ ~isWmsWhs
    /\ pc = "done"

\* C17, a fractional difference is shown: 1.5 requested, 1 remaining.
C17_FractionReached ==
    pc = "warnOver" /\ warning = <<"Over-receipt of", 5>>

\* C17, the warning was proceeded and a write followed.
C17_ProceedReached ==
    num(screen.RVQA) > num(RMQA) /\ Done("Warnings") /\ ~NoWriteIssued

\* the error a cancelled prompt rejects with
CancelError(at) ==
    CASE at \in {"warnWms", "warnOver"} -> "Operation cancelled by user"
      [] at = "promptSerials" -> "Serial input cancelled by user"
      [] at = "promptLot" -> "Lot input cancelled by user"
      [] at = "promptConfirm" -> "Receipt cancelled by user"
      [] OTHER -> ""

OperatorPrompts == {"warnWms", "warnOver", "promptSerials", "promptLot", "promptConfirm"}

\* C18: closing a warning, the serial form, the lot form or the confirmation
\* without accepting it - by Cancel, Escape or X - ends the run at once with
\* that prompt's cancellation error; nothing is sent and no step is recorded
\* in that step or afterwards. A prompt is only ever open while no equipment
\* record exists, so a cancellation leaves nothing to compensate.
C18_CancelAbortsRun ==
    /\ [](closedBy # "" =>
            /\ pc = "done"
            /\ dialog = "Error"
            /\ error \in {CancelError(at) : at \in OperatorPrompts}
            /\ inflight = {}
            /\ NoWriteIssued)
    /\ [](pc \in OperatorPrompts =>
            createdEquipment = <<>> /\ remoteEquip = {} /\ ~Issued(EquipAdd))
    /\ [][/\ closedBy' # closedBy =>
                /\ pc \in OperatorPrompts
                /\ closedBy' \in CloseWays
                /\ pc' = "done"
                /\ error' = CancelError(pc)
                /\ UNCHANGED <<issued, steps>>
          /\ (pc \in OperatorPrompts /\ pc' \notin OperatorPrompts /\ closedBy' = closedBy)
                => error' = "" /\ pc' # "done"
          /\ closedBy # "" => UNCHANGED <<pc, issued, steps, error, dialog, busyIndicator>>]_vars

\* C18 witness: the serial form was closed with Escape and the run has ended
\* with the cancellation error.
C18_Witness ==
    /\ closedBy = "Escape"
    /\ error = "Serial input cancelled by user"
    /\ pc = "done"

\* C18, a warning closed with X.
C18_WarningClosedReached ==
    closedBy = "X" /\ error = "Operation cancelled by user" /\ pc = "done"

\* C18, the lot form left by its Cancel button.
C18_LotCancelReached ==
    closedBy = "Cancel" /\ error = "Lot input cancelled by user" /\ pc = "done"

\* C18, the confirmation closed with Escape.
C18_ConfirmClosedReached ==
    closedBy = "Escape" /\ error = "Receipt cancelled by user" /\ pc = "done"

\* the names the validation error lists
Named == Range(named)

\* the mandatory fields the screen left empty
EmptyFields == {f \in Mandatory : IF f = "RVQA" THEN screen.RVQA = <<>> ELSE f \in screen.empty}

ValidationFailed == error = "Missing required fields"

\* C19: when one or more of the eight mandatory fields is empty the run ends
\* at validation with the error 'Missing required fields', which lists every
\* empty field once and no other, and no request is ever sent; when none is
\* empty validation passes.
C19_EveryMissingFieldNamed ==
    LET empty == EmptyFields
    IN
    /\ (empty # {} /\ pc # "start") =>
        /\ ValidationFailed
        /\ pc = "done"
        /\ dialog = "Error"
        /\ Named = empty
        /\ Len(named) = Cardinality(empty)
        /\ issued = <<>>
        /\ steps = <<>>
    /\ (empty = {} /\ pc # "start") => (Done("Validate") /\ named = <<>>)
    /\ ValidationFailed => empty # {}

\* C19 witness: three fields are empty, among them the quantity, and all
\* three are named.
C19_Witness ==
    /\ ValidationFailed
    /\ EmptyFields = {"PNLI", "RVQA", "OEND"}
    /\ named = <<"PNLI", "RVQA", "OEND">>
    /\ issued = <<>>

\* C19, all eight fields empty.
C19_AllMissingReached ==
    ValidationFailed /\ Named = Mandatory

\* C19, only the last field tested is empty.
C19_LastOnlyReached ==
    ValidationFailed /\ named = <<"OEND">>

\* the lookups whose record the run cannot do without
RequiredLookups == {GetLine, GetHead, GetItmBasic, GetBasicData2, GetOrderHead}

\* the error by which the run reports that a lookup failed
LookupError(api) ==
    CASE api = GetLine -> "PO line retrieval failed"
      [] api = GetHead -> "PO header retrieval failed"
      [] api = GetItmBasic -> "Item details retrieval failed"
      [] api = GetBasicData2 -> "Remaining quantity retrieval failed"
      [] api = GetOrderHead -> "Customer order details retrieval failed"
      [] OTHER -> ""

\* the lookups whose call was rejected or answered without a record
FailedLookups ==
    {api \in RequiredLookups :
        <<Call(api), "rejected">> \in replies \/ <<Call(api), "norecord">> \in replies}

\* C20: once the call of the PO line, PO header, item, remaining quantity or
\* drop-ship customer lookup was rejected or answered without a record, the
\* run has ended with the error of that lookup: no warning or prompt is or
\* was open, no write request was sent, the Lookups step is not completed,
\* and from then on nothing is sent and nothing opens. The customer lookup is
\* sent only for a drop-ship line.
C20_FailedLookupEndsRun ==
    /\ [](FailedLookups # {} =>
            /\ Cardinality(FailedLookups) = 1
            /\ pc = "done"
            /\ dialog = "Error"
            /\ \A api \in FailedLookups : error = LookupError(api)
            /\ inflight = {}
            /\ NoWriteIssued
            /\ ~Issued(GetItmLot)
            /\ warning = <<>> /\ promptFields = -1 /\ closedBy = ""
            /\ ~Done("Lookups") /\ ~Done("Warnings"))
    /\ [](Issued(GetOrderHead) => isDropShip(poLine))
    /\ [][FailedLookups # {} =>
            UNCHANGED <<pc, issued, steps, warning, promptFields, dialog, busyIndicator, error>>]_vars

\* C20 witness: the drop-ship customer lookup was answered without a record
\* and the run has ended with its error.
C20_Witness ==
    /\ <<Call(GetOrderHead), "norecord">> \in replies
    /\ error = "Customer order details retrieval failed"
    /\ pc = "done"

\* C20, the PO line lookup rejected.
C20_LineRejectedReached ==
    <<Call(GetLine), "rejected">> \in replies /\ error = LookupError(GetLine)

\* C20, the PO header lookup answered without a record.
C20_HeaderEmptyReached ==
    <<Call(GetHead), "norecord">> \in replies /\ error = LookupError(GetHead)

\* C20, the item lookup rejected.
C20_ItemRejectedReached ==
    <<Call(GetItmBasic), "rejected">> \in replies /\ error = LookupError(GetItmBasic)

\* C20, the remaining-quantity lookup answered without a record.
C20_RemainingEmptyReached ==
    <<Call(GetBasicData2), "norecord">> \in replies /\ error = LookupError(GetBasicData2)

RunSucceeded == pc = "done" /\ dialog = "Success"

\* C21 (as claimed): a run ends with exactly one alert - 'Success' when it
\* ran through, 'Error' when it failed or was cancelled - no alert is shown
\* before it has ended, an error alert never leads to a refresh, and once the
\* success alert has been dismissed the host screen has been refreshed.
C21_SuccessRefreshesErrorNever ==
    /\ pc = "done" <=> dialog # "none"
    /\ dialog = "Success" <=> (pc = "done" /\ error = "")
    /\ dialog = "Error" => ~refreshed
    /\ (RunSucceeded /\ alertClosed # "") => refreshed

\* C21, what holds: the alerts are shown as claimed, an error alert never
\* refreshes, and the success alert refreshes when it is dismissed with OK.
C21_RefreshOnlyByOk ==
    /\ pc = "done" <=> dialog # "none"
    /\ dialog = "Success" <=> (pc = "done" /\ error = "")
    /\ refreshed <=> (dialog = "Success" /\ alertClosed = "OK")

\* C21, the success alert was dismissed with OK and the screen refreshed.
C21_RefreshReached ==
    RunSucceeded /\ alertClosed = "OK" /\ refreshed

\* C21, the error alert was dismissed with OK without refresh.
C21_ErrorDismissedReached ==
    dialog = "Error" /\ alertClosed = "OK" /\ ~refreshed

\* ---- C22 ----
HeaderStatuses == {"15", "20"}

PackageLineStatuses == {"25", "30", "35", "40"}

\* C22: the diagnostic of a failed transaction depends on the status read and
\* on nothing else: '15' and '20' give the header-level diagnostic, '25', '30',
\* '35' and '40' the package/line-level one, every other status but '90' the
\* generic one; without a failed status there is no diagnostic
C22_DiagnosticByStatusAlone ==
    /\ STAT \in HeaderStatuses => diagnostic = "Header level error"
    /\ STAT \in PackageLineStatuses => diagnostic = "Package/Line level error"
    /\ STAT \notin HeaderStatuses \cup PackageLineStatuses \cup {"none", "90"}
          => diagnostic = "Processing error"
    /\ STAT \in {"none", "90"} => diagnostic = ""

\* a Serial run whose transaction stopped at status '40'
C22_PackageLineReached ==
    /\ STAT = "40"
    /\ diagnostic = "Package/Line level error"
    /\ item.INDI = "2"

\* a run whose transaction stopped at status '20'
C22_HeaderReached == STAT = "20" /\ diagnostic = "Header level error"

\* runs whose status is '45', '92', '99', unknown or missing from the record
C22_GenericReached45 == STAT = "45" /\ diagnostic = "Processing error"

C22_GenericReachedMissing == STAT = "" /\ diagnostic = "Processing error"

\* ---- C23 ----
LotItem == item.INDI = "3"

\* C23: in the Lot and in the confirm-only branch the run sends at most one
\* AddWhsLine, and exactly one before it asks for processing; that line carries
\* the quantity of the screen and the lot the operator entered (no identifier
\* in the confirm-only branch); no MMS240MI/Add and no MMS240MI/Del is sent
C23_OneFullLineNoEquipment ==
    ~SerialItem =>
        LET n == Times(AddWhsLine)
        IN  /\ n <= 1
            /\ Issued(PrcWhsTran) => n = 1
            /\ \A i \in 1..Len(issued) :
                 /\ issued[i].api = AddWhsLine =>
                      /\ issued[i].qty = screen.RVQA
                      /\ issued[i].key = IF LotItem THEN lot.lot ELSE <<>>
                      /\ LotItem => lot.lot # <<>>
                 /\ issued[i].api \notin {EquipAdd, EquipDel}
            /\ createdEquipment = <<>>
            /\ remoteEquip = {}

\* a Lot run that succeeded with a quantity of more than one
C23_LotLineReached ==
    /\ LotItem
    /\ RunSucceeded
    /\ num(screen.RVQA) > 1
    /\ Times(AddWhsLine) = 1

\* a confirm-only run that succeeded with a quantity of more than one
C23_PlainLineReached ==
    /\ item.INDI \in {"0", "1"}
    /\ RunSucceeded
    /\ num(screen.RVQA) > 1
    /\ Times(AddWhsLine) = 1

\* ---- C24 ----
CustomerLookupError == "Customer order details retrieval failed"

\* C24: OIS100MI/GetOrderHead is sent only for a PO line with relation code
\* '3' and a related order number, and for such a line it is sent as soon as
\* the remaining quantity has been read; for every other PO line it is never
\* sent, no customer is set and the run never ends with the error of that
\* lookup
C24_CustomerLookupOnlyForDropShip ==
    LET related == poLine.RORC = "3" /\ poLine.RORN # ""
    IN  /\ Issued(GetOrderHead) => related
        /\ (related /\ Fulfilled(Call(GetBasicData2))) => Issued(GetOrderHead)
        /\ ~related => (CUNO = "" /\ error # CustomerLookupError)

\* a run on a PO line with relation code '3' but no related order number
\* succeeded without the customer lookup
C24_NoOrderNumberReached ==
    /\ poLine.RORC = "3"
    /\ poLine.RORN = ""
    /\ RunSucceeded
    /\ ~Issued(GetOrderHead)

\* a run on a PO line with a related order number but another relation code
\* succeeded without the customer lookup
C24_OtherCodeReached ==
    /\ poLine.RORC = "0"
    /\ poLine.RORN # ""
    /\ RunSucceeded
    /\ ~Issued(GetOrderHead)

\* a drop-ship run that sent the customer lookup and succeeded
C24_DropShipReached ==
    /\ poLine.RORC = "3"
    /\ poLine.RORN # ""
    /\ RunSucceeded
    /\ Fulfilled(Call(GetOrderHead))

\* ---- C25 ----
StatusRequests == Sent(GetWhsHead)

\* C25 (as claimed): once the remote system has processed the transaction of
\* the run (status '90'), no MMS240MI/Del has been sent for an equipment record
\* of the run - also when the status request was rejected, returned no record
\* or returned a status the transaction was still passing through.
C25_ProcessedNeverRolledBack ==
    processed => ~Issued(EquipDel)

\* what holds: a run that read status '90' sends no MMS240MI/Del
C25_Read90NeverRolledBack ==
    STAT = "90" => ~Issued(EquipDel)

\* the transaction was processed, the status request was rejected, and the
\* equipment records of the run were deleted
C25_PollRejectedReached ==
    /\ processed
    /\ \E r \in StatusRequests : Rejected(r)
    /\ pc = "done"
    /\ createdEquipment = <<>>
    /\ \E s \in added : DelIssued(s) /\ s \notin remoteEquip

\* the transaction was processed, the status request returned no record, and
\* a Del was sent
C25_PollEmptyReached ==
    /\ processed
    /\ STAT = "none"
    /\ \E r \in StatusRequests : Fulfilled(r)
    /\ Issued(EquipDel)

\* the status was read while the transaction was passing through '40'; a Del
\* was sent and the transaction reached '90' afterwards
C25_ReadTooEarlyReached ==
    /\ processed
    /\ STAT = "40"
    /\ Issued(EquipDel)

\* ---- C26 ----
SerialCheck(s) == Req(GetItmLot, s, <<>>)

\* C26: an MMS240MI/Add is sent only when the GetItmLot check of every serial
\* of the run has been answered and has found the serial not registered; once
\* one check has failed no Add is ever sent and no equipment record exists
C26_AddOnlyAfterAllChecksPassed ==
    LET adding == Issued(EquipAdd)
    IN  /\ adding =>
              \A i \in 1..Len(serials) :
                  /\ SerialCheck(serials[i]) \notin inflight
                  /\ Fulfilled(SerialCheck(serials[i]))
        /\ \A i \in 1..Len(serials) :
              Rejected(SerialCheck(serials[i])) =>
                  (~adding /\ added = {} /\ remoteEquip = {} /\ createdEquipment = <<>>)

\* both checks of a run with two serials passed and both Adds were sent
C26_AllPassedReached ==
    /\ Len(serials) = 2
    /\ Times(EquipAdd) = 2
    /\ \A i \in 1..2 : Fulfilled(SerialCheck(serials[i]))

\* one check of a run with two serials passed, the other failed, and the run
\* ended without an Add
C26_OneFailedReached ==
    /\ Len(serials) = 2
    /\ \E i, j \in 1..2 : Fulfilled(SerialCheck(serials[i])) /\ Rejected(SerialCheck(serials[j]))
    /\ RunFailed
    /\ ~Issued(EquipAdd)

\* ---- C27 ----
DelIndexes == {k \in 1..Len(issued) : issued[k].api = EquipDel}

\* C27: in one run no equipment record has MMS240MI/Del sent for it twice -
\* also after a status other than '90', where process() rolls back and the
\* catch of the Serial branch calls rollbackEquipment again
C27_AtMostOneDelPerRecord ==
    LET dels == DelIndexes
    IN  Cardinality(dels) = Cardinality({issued[k].key : k \in dels})

\* a Serial run with two records read a failed status, rolled both back and
\* has ended
C27_StatusRollbackReached ==
    /\ SerialItem
    /\ STAT = "45"
    /\ pc = "done"
    /\ RunFailed
    /\ Cardinality(added) = 2
    /\ \A s \in added : DelIssued(s)
    /\ createdEquipment = <<>>

\* ---- C28 ----
\* the requested quantity (in tenths) is a whole number above zero
PositiveWhole(q) == q > 0 /\ q % 10 = 0

\* C28 (as claimed): on a serial item with a requested quantity that is not a
\* positive whole number, no AddWhsHead is sent and the run does not report
\* success.
C28_NoTransactionWithoutLines ==
    (SerialItem /\ ~PositiveWhole(Requested)) =>
        (~Issued(AddWhsHead) /\ ~RunSucceeded)

\* what holds: a negative or fractional quantity never gets past the serial form
C28_NegativeOrFractionNeverSubmitted ==
    (SerialItem /\ (Requested < 0 \/ Requested % 10 # 0)) =>
        (~Issued(AddWhsHead) /\ ~RunSucceeded /\ ~Issued(GetItmLot))

\* a Serial run with quantity '0' reported success without any receipt line
C28_ZeroQuantityReceivedReached ==
    /\ SerialItem
    /\ Requested = 0
    /\ RunSucceeded
    /\ Issued(AddWhsHead)
    /\ Issued(PrcWhsTran)
    /\ ~Issued(AddWhsLine)
    /\ lines = <<>>

\* ---- C29 ----
NoItem == [INDI |-> "", TPCD |-> "", EXPD |-> ""]

BranchPoint == "adv_Warnings"

SerialPlaces == {"promptSerials", "checkSer", "addEquip", "adv_Equip", "adv_Queue", "adv_Final"}

LotPlaces == {"promptLot", "checkLot"}

ConfirmPlaces == {"promptConfirm"}

SerialLimitError == "Cannot process serials. Maximum allowed"

\* C29: a run leaves the branching point into exactly one branch, chosen by the
\* control method of the item: '2' the Serial branch, '3' the Lot branch, any
\* other value the confirm-only branch; a branch is entered from the branching
\* point only, what belongs to a branch happens only under its control method,
\* and the control method is assigned once, by the item lookup, and never again
C29_OneBranchByControlMethod ==
    /\ [][(pc = BranchPoint /\ pc' # BranchPoint) =>
            /\ item.INDI = "2" =>
                 (pc' = "promptSerials" \/ (pc' = "done" /\ error' = SerialLimitError))
            /\ item.INDI = "3" => pc' = "promptLot"
            /\ item.INDI \notin {"2", "3"} => pc' = "promptConfirm"]_vars
    /\ [][(pc' \in {"promptSerials", "promptLot", "promptConfirm"} /\ pc' # pc) =>
            pc = BranchPoint]_vars
    /\ []((pc \in SerialPlaces \/ promptFields # -1 \/ Issued(EquipAdd)) => item.INDI = "2")
    /\ []((pc \in LotPlaces \/ lot.lot # <<>>) => item.INDI = "3")
    /\ [](pc \in ConfirmPlaces => item.INDI \notin {"2", "3"})
    /\ [][item' # item => (pc = "lookupsItem" /\ item = NoItem)]_vars

\* a run on an item with a control method other than 0..3 went through the
\* confirm-only branch and succeeded
C29_OtherMethodReached ==
    /\ item.INDI = "4"
    /\ RunSucceeded
    /\ Times(AddWhsLine) = 1
    /\ lines[1].BANO = <<>>

\* manual control waits at the confirmation
C29_ManualReached == item.INDI = "1" /\ pc = "promptConfirm"

\* serial and lot control wait at their forms
C29_SerialReached == item.INDI = "2" /\ pc = "promptSerials"

C29_LotReached == item.INDI = "3" /\ pc = "promptLot"

\* ---- C30 ----
WhsLookup == Call(WhsGet)

WhsNoRecord == <<WhsLookup, "norecord">> \in replies

WhsNotFound == <<WhsLookup, "notfound">> \in replies

\* C30 (as claimed): when MMS009MI/Get finds no record for the warehouse -
\* answered without a record, or rejected as not found - the run does not end
\* there: the warehouse counts as not WMS-managed and the item lookup is sent.
C30_MissingWarehouseTolerated ==
    (WhsNoRecord \/ WhsNotFound) =>
        /\ ~isWmsWhs
        /\ Issued(GetItmBasic)
        /\ error # "Data lookup failed"

\* what holds: a response without a record is tolerated
C30_EmptyResponseTolerated ==
    WhsNoRecord =>
        /\ ~isWmsWhs
        /\ Issued(GetItmBasic)
        /\ error # "Data lookup failed"

\* the warehouse lookup was rejected as not found and the run has ended with
\* an error before the item lookup
C30_NotFoundEndsRunReached ==
    /\ WhsNotFound
    /\ pc = "done"
    /\ RunFailed
    /\ error = "Data lookup failed"
    /\ ~Issued(GetItmBasic)

\* a response without a record let the run go on to success
C30_EmptyContinuesReached ==
    /\ WhsNoRecord
    /\ RunSucceeded

\* ---- C31 ----
Material == ~(item.INDI = "0" /\ item.TPCD = "13")

LocationError == "Warehouse location (WHSL) is required"

\* C31: a material item (anything but control method '0' with category '13')
\* with an empty location ends the run with the location error in the item
\* lookup: the remaining quantity is not asked for, no warning or form has
\* opened, nothing is written.  Every AddWhsLine of a material item carries
\* the location of the screen; no AddWhsLine of a non-material item carries
\* a location, whether the screen has one or not
C31_LocationRequiredForMaterial ==
    /\ (item # NoItem /\ Material /\ ~screen.WHSL) =>
          /\ pc = "done"
          /\ RunFailed
          /\ error = LocationError
          /\ ~Issued(GetBasicData2)
          /\ NoWriteIssued
          /\ warning = <<>> /\ promptFields = -1 /\ closedBy = ""
          /\ ~Done("Lookups")
    /\ error = LocationError => (Material /\ ~screen.WHSL)
    /\ \A i \in 1..Len(issued) :
          issued[i].api = AddWhsLine =>
              issued[i].WHSL = IF Material THEN "A1" ELSE "absent"

\* a non-material item without a location was received
C31_NonMaterialWithoutLocationReached ==
    /\ ~Material
    /\ item # NoItem
    /\ ~screen.WHSL
    /\ RunSucceeded
    /\ Times(AddWhsLine) = 1

\* a non-material item with a location on the screen was received
C31_NonMaterialWithLocationReached ==
    /\ ~Material
    /\ item # NoItem
    /\ screen.WHSL
    /\ RunSucceeded
    /\ Times(AddWhsLine) = 1

\* category '13' under another control method is material: without a location
\* the run has ended
C31_Category13MaterialReached ==
    /\ item.TPCD = "13"
    /\ item.INDI = "1"
    /\ ~screen.WHSL
    /\ error = LocationError

\* a serial item with a location sent its lines
C31_MaterialLinesReached ==
    /\ SerialItem
    /\ Times(AddWhsLine) = 2

\* ---- C32 ----
\* C32: the busy indicator is shown from Init on and while the run is under
\* way, it is hidden once the run has ended - with the success alert or with
\* the error alert, whatever failed - and from then on it is never shown again
C32_BusyHiddenWhenRunEnds ==
    /\ [](busyIndicator <=> pc # "done")
    /\ [][~busyIndicator => ~busyIndicator']_vars

\* the run ended after a rollback in which a Del failed
C32_FailedRollbackReached ==
    /\ pc = "done"
    /\ RunFailed
    /\ summary.notDeleted > 0
    /\ ~busyIndicator

\* the run ended because the operator closed a prompt
C32_CancelReached ==
    /\ pc = "done"
    /\ closedBy # ""
    /\ RunFailed
    /\ ~busyIndicator

\* the run ended with the success alert
C32_SuccessReached ==
    /\ RunSucceeded
    /\ ~busyIndicator

\* a prompt is open while the indicator is shown
C32_PromptWhileBusyReached ==
    /\ promptFields > 0
    /\ busyIndicator

\* ---- C33 ----
DelRequestsIssued == {issued[i] : i \in {j \in 1..Len(issued) : issued[j].api = EquipDel}}

DelAnswered(r) == \E p \in replies : p[1] = r

\* C33: in a Serial run the error alert comes after the compensation: while
\* it is shown no rollbackEquipment() is running and every Del that was sent
\* has been answered (deleted or not), and at the step that shows it the
\* tracking list is empty
C33_ErrorDialogAfterCompensation ==
    /\ []((SerialItem /\ dialog = "Error") =>
            /\ ~rb.active
            /\ Pending(EquipDel, inflight) = {}
            /\ \A r \in DelRequestsIssued : DelAnswered(r))
    /\ [][(SerialItem /\ dialog # "Error" /\ dialog' = "Error") =>
            createdEquipment' = <<>>]_vars

\* the error alert of a Serial run is shown after two Del requests, one of
\* which did not delete its record
C33_AfterRollbackReached ==
    /\ SerialItem
    /\ dialog = "Error"
    /\ Times(EquipDel) = 2
    /\ summary.notDeleted = 1
    /\ summary.deleted = 1

\* a rollback is under way: a Del is unanswered and no alert is shown
C33_RollbackUnderWayReached ==
    /\ SerialItem
    /\ rb.active
    /\ Pending(EquipDel, inflight) # {}
    /\ dialog = "none"
    /\ error # ""

(* --------------------------------------- BEN_H5_AutoComplete: the widget *)
\* Largest number of calls of the source callback.
MaxSearches == 2

\* what the operator types into the search field (minLength: 1)
Typed == {<<"a">>, <<"b", "*", " ", "c">>}

\* records of the remote system, output fields in order
RecordA == <<<<"A">>, <<"C">>>>

RecordB == <<<<"B">>, <<"a", "b">>>>

RecordAB == <<<<"A", "B">>, <<"C">>>>

\* the record lists a response may carry
RemoteLists == {<<RecordB, RecordA, RecordAB>>, <<RecordAB>>, <<>>}

\* the items of a response that is not flagged with an error
ResponseItems == {Content(list) : list \in RemoteLists} \cup {Undefined}

\* executeRequestV2: resolves with items, resolves flagged with an error,
\* rejects
SearchOutcomes == {"items", "hasError", "rejected"}

Commands == {"ENTER", "PAGE DOWN"}

\* everything of the receipt script
receipt == <<pc, steps, ctx, form, equip, whs, net, replies, aux, closedBy, named,
             alertClosed, refreshed, dialog, busyIndicator, error>>

\* the widget created last has not been destroyed
live == widgets # <<>> /\ ~widgets[Len(widgets)].destroyed

\* the response callback of the widget for call i: the content of the latest
\* call is shown, no content or an empty list closes the menu, the content of
\* an earlier call is dropped
suggest(i, content) ==
    IF i = Len(searches) /\ live
    THEN IF content.defined THEN content.list ELSE <<>>
    ELSE menu

\* (variant: the result is stored under this.currentSearchTerm)
cacheKeyCurrent(i) == currentSearchTerm

\* the key of this.cache[searchTerm] = result: the term of the call
cacheKey(i) == searches[i].term

\* a call of the source callback answered at once
answered(searchTerm) ==
    [term |-> searchTerm, remote |-> "none", raw |-> <<>>, responses |-> 1]

\* source(search, response): a selected value or a cached term is answered at
\* once, anything else is requested from the remote system
source ==
    /\ live
    /\ Len(searches) < MaxSearches
    /\ \E term \in Typed :
        LET searchTerm == toUpperCase(term)
        IN  IF searchTerm \in DOMAIN cacheSelectedItems
            THEN LET content == cacheAt(cacheSelectedItems[searchTerm])
                 IN  /\ searches' = Append(searches, answered(searchTerm))
                     /\ menu' = IF content.defined THEN content.list ELSE <<>>
                     /\ UNCHANGED currentSearchTerm
            ELSE IF searchTerm \in DOMAIN cache
            THEN LET content == cacheAt(searchTerm)
                 IN  /\ searches' = Append(searches, answered(searchTerm))
                     /\ menu' = content.list
                     /\ UNCHANGED currentSearchTerm
            ELSE /\ currentSearchTerm' = searchTerm
                 /\ searches' = Append(searches,
                        [term |-> searchTerm, remote |-> "pending", raw |-> <<>>,
                         responses |-> 0])
                 /\ UNCHANGED menu
    /\ UNCHANGED <<cache, cacheSelectedItems, widgets, subscribed, timer, command>>
    /\ UNCHANGED receipt

\* the then() and catch() callbacks of the request of call i; transformResponse
\* throws on undefined items, which the catch() handles like a rejection
searchResponse ==
    /\ \E i \in 1..Len(searches), out \in SearchOutcomes, items \in ResponseItems :
        LET parsedResult == parseResponse(items)
            result == sort(filterSearch(searches[i].term,
                                        transformResponse(parsedResult.list)))
        IN  /\ searches[i].remote = "pending"
            /\ out # "items" => items = Undefined
            /\ IF out = "items" /\ parsedResult.defined
               THEN /\ cache' = (cacheKey(i) :> result) @@ cache
                    /\ searches' = [searches EXCEPT ![i] =
                           [@ EXCEPT !.remote = out, !.raw = items.list,
                                     !.responses = @ + 1]]
                    /\ menu' = suggest(i, Content(result))
               ELSE IF out = "hasError"
               THEN /\ searches' = [searches EXCEPT ![i] = [@ EXCEPT !.remote = out]]
                    /\ UNCHANGED <<cache, menu>>
               ELSE /\ searches' = [searches EXCEPT ![i] =
                           [@ EXCEPT !.remote = IF out = "items" THEN "noItems" ELSE out,
                                     !.responses = @ + 1]]
                    /\ menu' = suggest(i, Undefined)
                    /\ UNCHANGED cache
    /\ UNCHANGED <<cacheSelectedItems, currentSearchTerm, widgets, subscribed, timer,
                   command>>
    /\ UNCHANGED receipt

\* select(_event, ui): the operator picks an item of the open menu, which closes
select ==
    /\ live
    /\ \E k \in 1..Len(menu) :
        cacheSelectedItems' = (menu[k].value :> currentSearchTerm) @@ cacheSelectedItems
    /\ menu' = <<>>
    /\ UNCHANGED <<cache, currentSearchTerm, searches, widgets, subscribed, timer,
                   command>>
    /\ UNCHANGED receipt

\* the host raises Requesting for a command; the handler of addEvents, while
\* subscribed, cancels ENTER when the menu is open and the field has the focus
onRequesting ==
    /\ command \in {"", "cancelled"}
    /\ \E cmd \in Commands, isFocused \in BOOLEAN :
        LET isOpen == menu # <<>>
            cancel == subscribed.Requesting /\ cmd = "ENTER" /\ isFocused /\ isOpen
        IN  command' = IF cancel THEN "cancelled" ELSE cmd
    /\ UNCHANGED <<cache, cacheSelectedItems, currentSearchTerm, searches, menu, widgets,
                   subscribed, timer>>
    /\ UNCHANGED receipt

\* the host raises Requested for the command sent; the handler of addEvents,
\* while subscribed, unsubscribes both handlers, destroys the widget and
\* after PAGE DOWN sets the timer
onRequested ==
    /\ command \in Commands
    /\ command' = ""
    /\ IF subscribed.Requested
       THEN /\ subscribed' = [Requesting |-> FALSE, Requested |-> FALSE]
            /\ widgets' = [widgets EXCEPT ![Len(widgets)] =
                              [destroyed |-> TRUE, requested |-> TRUE]]
            /\ menu' = <<>>
            /\ timer' = (command = "PAGE DOWN")
       ELSE /\ widgets' = [i \in 1..Len(widgets) |->
                              IF widgets[i].destroyed THEN widgets[i]
                              ELSE [widgets[i] EXCEPT !.requested = TRUE]]
            /\ UNCHANGED <<subscribed, menu, timer>>
    /\ UNCHANGED <<cache, cacheSelectedItems, currentSearchTerm, searches>>
    /\ UNCHANGED receipt

\* the setTimeout callback: initializeSearchFieldComponent() and setupWidget()
reinitialize ==
    /\ timer
    /\ timer' = FALSE
    /\ widgets' = Append(widgets, [destroyed |-> FALSE, requested |-> FALSE])
    /\ UNCHANGED <<cache, cacheSelectedItems, currentSearchTerm, searches, menu,
                   subscribed, command>>
    /\ UNCHANGED receipt

\* the search field on a screen where no receipt is being entered
InitAutoCompleteScreen ==
    /\ Init
    /\ screen = [RVQA |-> NumStr(1), WHSL |-> TRUE, empty |-> {}]

NextAutoComplete ==
    \/ source
    \/ searchResponse
    \/ select
    \/ onRequesting
    \/ onRequested
    \/ reinitialize

SpecAutoComplete == InitAutoCompleteScreen /\ [][NextAutoComplete]_vars

\* every request is answered in the end
SpecAutoCompleteFair ==
    InitAutoCompleteScreen /\ [][NextAutoComplete]_vars /\ WF_vars(searchResponse)

\* ---- C34 ----
Values(list) == {list[k].value : k \in 1..Len(list)}

Ascending(list) ==
    \A j, k \in 1..Len(list) : j < k => ~LessThan(list[k].value, list[j].value)

\* every word of term t occurs in the value or the label of the item
Matches(t, it) ==
    \A w \in Range(words(withoutStars(t), <<>>)) :
        includes(toUpperCase(it.value), w) \/ includes(toUpperCase(it.label), w)

\* call i was answered with items by the remote system and list is what is
\* kept of them for its term
ResultOf(i, list) ==
    /\ searches[i].remote = "items"
    /\ list = sort(filterSearch(searches[i].term, transformResponse(searches[i].raw)))
    /\ Ascending(list)
    /\ \A k \in 1..Len(list) : Matches(searches[i].term, list[k])
    /\ Values(list) \subseteq {searches[i].raw[k][1] : k \in 1..Len(searches[i].raw)}

C34_OutOfOrderReached ==
    /\ Len(searches) = 2
    /\ searches[1].remote = "pending"
    /\ searches[2].remote = "items"
    /\ searches[1].term # searches[2].term
    /\ DOMAIN cache = {searches[2].term}

\* both requests failed and the cache is empty
C34_FailedRequestsReached ==
    /\ Len(searches) = 2
    /\ searches[1].remote = "hasError"
    /\ searches[2].remote = "rejected"
    /\ cache = <<>>

\* ---- C35 ----
\* C35: every call of the source callback is followed by exactly one call of
\* its response callback: at once on a hit in either cache, and after the
\* answer of the remote system otherwise - items, an answer flagged with an
\* error, or a rejection
C35_EveryCallRespondsOnce ==
    /\ \A i \in 1..MaxSearches :
          [](Len(searches) >= i => <>(Len(searches) >= i /\ searches[i].responses = 1))
    /\ [](\A i \in 1..Len(searches) : searches[i].responses <= 1)

\* no call is answered twice, and a call is left without an answer only
\* while its request is pending or when the answer was flagged with an error
C35_UnansweredOnlyOnFlaggedError ==
    \A i \in 1..Len(searches) :
        /\ searches[i].responses <= 1
        /\ searches[i].responses = 0 => searches[i].remote \in {"pending", "hasError"}

\* an answer flagged with an error has arrived and the response callback of
\* its call has not been called
C35_FlaggedErrorReached ==
    \E i \in 1..Len(searches) :
        searches[i].remote = "hasError" /\ searches[i].responses = 0

\* ---- C36 ----
\* C36: every value in cacheSelectedItems is mapped to a term that is in the
\* cache, and the list cached for that term contains an item with the value
C36_SelectedValuesAreCached ==
    \A v \in DOMAIN cacheSelectedItems :
        /\ cacheSelectedItems[v] \in DOMAIN cache
        /\ v \in Values(cache[cacheSelectedItems[v]])

\* a selected value is mapped to a term whose request is still unanswered
C36_SelectedWhilePendingReached ==
    \E v \in DOMAIN cacheSelectedItems :
        /\ cacheSelectedItems[v] \notin DOMAIN cache
        /\ \E i \in 1..Len(searches) :
              searches[i].term = cacheSelectedItems[v] /\ searches[i].remote = "pending"

\* a selected value is mapped to a cached term whose list does not hold it
C36_SelectedNotInListReached ==
    \E v \in DOMAIN cacheSelectedItems :
        /\ cacheSelectedItems[v] \in DOMAIN cache
        /\ v \notin Values(cache[cacheSelectedItems[v]])

\* ---- C37 ----
\* C37: a widget that has seen a Requested event is destroyed, and while a
\* widget exists the Requesting handler is subscribed
C37_WidgetsDestroyedAndGuarded ==
    /\ \A i \in 1..Len(widgets) : widgets[i].requested => widgets[i].destroyed
    /\ live => subscribed.Requesting

\* the first widget is destroyed by the first Requested event, and while it
\* exists the Requesting handler is subscribed
C37_FirstWidgetDestroyedAndGuarded ==
    /\ widgets[1].requested => widgets[1].destroyed
    /\ ~widgets[1].destroyed => subscribed.Requesting

\* the widget set up again after PAGE DOWN exists, no handler is subscribed
\* and a Requested event has left it in place
C37_SecondWidgetLeftReached ==
    /\ Len(widgets) = 2
    /\ widgets[2].requested
    /\ ~widgets[2].destroyed
    /\ ~subscribed.Requesting
    /\ ~subscribed.Requested

\* ENTER was sent with the menu of the second widget open
C37_EnterNotCancelledReached ==
    /\ Len(widgets) = 2
    /\ menu # <<>>
    /\ command = "ENTER"

====
